---- MODULE Spec2Model ----
(***************************************************************************)
(* LatchPac Validator 3000 -- production test sequencer.                   *)
(*                                                                         *)
(* Model of run_production_test_v2 (test_logic.c, production build, i.e.   *)
(* MOCK_HARDWARE_MODE undefined) as a step machine: one action per step of *)
(* the function, the environment (lid switch, load-sense line, SWD target, *)
(* elapsed time) chosen nondeterministically at every sample.              *)
(* classify_swd_failure is a pure operator, exercised on its own by        *)
(* SpecClassify.                                                           *)
(***************************************************************************)
EXTENDS Integers, Sequences, FiniteSets, TLC

(* ------------------------------------------------------------------ *)
(*  Program constants                                                   *)
(* ------------------------------------------------------------------ *)
SETTLE_MS == 500

SAFETY_POLL_MS == 20

TEST_TIMEOUT_MS == 5000

SWD_MAX_RETRIES == 3

SWD_RETRY_MS == 50

RESET_ASSERT_MS == 20

RESET_SETTLE_MS == 10

SWD_IDCODE_STM32G030 == 197203063

(* ------------------------------------------------------------------ *)
(*  Bounds of the model                                                 *)
(* ------------------------------------------------------------------ *)
\* the clock saturates here (every value >= the deadline behaves alike)
MaxClock == 5200

\* longest extra time one step may take beyond its programmed delay
Stall == 5000

\* a short extra time one step may take beyond its programmed delay
Jitter == 7

\* number of wrong identifier values the target may answer with
NumWrongIds == 4

(* ------------------------------------------------------------------ *)
(*  Value sets                                                          *)
(* ------------------------------------------------------------------ *)
swd_status_t ==
    {"SWD_OK", "SWD_ACK_WAIT", "SWD_ACK_FAULT", "SWD_PARITY_ERROR",
     "SWD_TIMEOUT", "SWD_ERROR"}

test_result_t ==
    {"TEST_PASS", "FAIL_SAFETY_OPEN", "FAIL_STUCK_ON", "FAIL_NO_LATCH",
     "FAIL_STUCK_LATCHED", "FAIL_SWD_ERROR", "FAIL_TIMEOUT",
     "FAIL_INCOMPLETE", "FAIL_SWD_NO_TARGET", "FAIL_SWD_WRONG_ID",
     "FAIL_SWD_BUS_ERROR"}

\* identifier words the target may deliver: the expected one and wrong ones
IdCodes ==
    {SWD_IDCODE_STM32G030, 0}
      \cup {SWD_IDCODE_STM32G030 + k : k \in 1..NumWrongIds}

\* extra time a step may take (scheduling, bit-banging), in ms
Elapse == {0, Jitter, Stall}

VARIABLES
    pc,            \* position inside run_production_test_v2
    gpio,          \* levels of PIN_SIM_START / PIN_SIM_STOP
    report,        \* the test_report_t being built
    now,           \* esp_timer_get_time() relative to t_start, in ms
    deadline,      \* deadline_us, in ms relative to t_start
    remaining,     \* safe_delay_ms: ms still to wait
    attempt,       \* swd_verify_target_detailed: loop counter
    swd_r,         \* swd_verify_target_detailed: result under construction
    obs,           \* history: what each sample of lid / load read
    pressCount,    \* history: gpio_set_level(sim line, 0) calls
    levelChanges,  \* history: level changes on the two sim lines
    loadSamples,   \* history: load_is_on() calls
    swdOps,        \* history: SWD operations issued on the bus
    abortRecoveries, \* history: swd_abort_recovery() calls
    cleanupCount,  \* history: executions of the done: block
    forceSafeCount,\* history: force_outputs_safe() calls
    swdSafeCount,  \* history: swd_safe_state() calls
    waitPolls,     \* history: [chunks, lidSamples, maxChunk] of the settle waits
    aborted,       \* history: safe_delay_ms returned false
    visited,       \* history: sequencer states entered, in order
    dbg,           \* history: statuses of the debug probe
    attemptLog,    \* history: status each identification attempt ended with
    cls_in,        \* classify_swd_failure: argument
    cls_out,       \* classify_swd_failure: value returned
    xf,            \* swd_transfer: arguments, locals, position, value returned
    xdata,         \* swd_transfer: the word *data points to
    xnow,          \* esp_timer_get_time(), in us
    wire,          \* history: what was done on SWDIO / SWCLK, in order
    xh,            \* history: calls, request frames, ACKs of swd_transfer
    rg,            \* register layer: operation, arguments, locals, position
    rbuf,          \* register layer: the caller's output words
    bus,           \* history: transactions issued, with their answers
    idc,           \* identification layer: operation, locals, position
    evlog,         \* history: resets, line sequences and transactions
    pf,            \* a pure function of swd_host.c: arguments and result
    app,           \* main.c: the application loop, its statics and history
    mock           \* mock_hardware.c: the simulated load

seqVars ==
    <<pc, gpio, report, now, deadline, remaining, attempt, swd_r, obs,
      pressCount, levelChanges, loadSamples, swdOps, abortRecoveries,
      cleanupCount, forceSafeCount, swdSafeCount, waitPolls, aborted,
      visited, dbg, attemptLog>>

clsVars == <<cls_in, cls_out>>

xferVars == <<xf, xdata, xnow, wire, xh>>

regVars == <<rg, rbuf, bus>>

identVars == <<idc, evlog>>

pureVars == <<pf>>

appVars == <<app, mock>>

engVars == <<xferVars, regVars, identVars, pureVars, appVars>>

vars == <<seqVars, clsVars, engVars>>

(* ------------------------------------------------------------------ *)
(*  Helpers of test_logic.c                                             *)
(* ------------------------------------------------------------------ *)
Min(a, b) == IF a < b THEN a ELSE b

\* the clock after a step that took d ms
Tick(t, d) == Min(t + d, MaxClock)

LID_IS_OPEN_Inverted(level) == level = 0

LID_IS_OPEN(level) == level = 1

load_is_on_Inverted(level) == level = 0

load_is_on(level) == level = 1

deadline_expired(t, deadline_ms) == t >= deadline_ms

LatchFailed_NoNegation(level) == load_is_on(level)

\* Step 3: if (!load_is_on())
LatchFailed(level) == ~load_is_on(level)

UnlatchFailed_Negated(level) == ~load_is_on(level)

\* Step 5: if (load_is_on())
UnlatchFailed(level) == load_is_on(level)

force_outputs_safe_Nothing(g) == g

force_outputs_safe_StartOnly(g) == [g EXCEPT !.start = 1]

force_outputs_safe(g) == [g EXCEPT !.start = 1, !.stop = 1]

\* number of line levels that differ between two gpio states
Changes(g, h) ==
    (IF g.start # h.start THEN 1 ELSE 0) + (IF g.stop # h.stop THEN 1 ELSE 0)

safe_delay_chunk_NoProgress(rem) ==
    IF rem > SAFETY_POLL_MS THEN 0 ELSE rem

safe_delay_chunk_Unchopped(rem) == rem

\* safe_delay_ms: length of the next polling interval
safe_delay_chunk(rem) ==
    IF rem > SAFETY_POLL_MS THEN SAFETY_POLL_MS ELSE rem

IdMatches(r) == r.status = "SWD_OK" /\ r.idcode = SWD_IDCODE_STM32G030

classify_swd_failure_WaitGeneric(r) ==
    IF r.status = "SWD_OK" /\ r.idcode # SWD_IDCODE_STM32G030
    THEN "FAIL_SWD_WRONG_ID"
    ELSE CASE r.status = "SWD_ERROR" -> "FAIL_SWD_NO_TARGET"
           [] r.status \in {"SWD_ACK_FAULT", "SWD_PARITY_ERROR"} ->
                "FAIL_SWD_BUS_ERROR"
           [] OTHER -> "FAIL_SWD_ERROR"

classify_swd_failure_NoWrongId(r) ==
    CASE r.status = "SWD_OK" -> "FAIL_SWD_ERROR"
      [] r.status = "SWD_ERROR" -> "FAIL_SWD_NO_TARGET"
      [] r.status \in {"SWD_ACK_FAULT", "SWD_PARITY_ERROR"} -> "FAIL_SWD_BUS_ERROR"
      [] r.status \in {"SWD_ACK_WAIT", "SWD_TIMEOUT"} -> "FAIL_SWD_BUS_ERROR"
      [] OTHER -> "FAIL_SWD_ERROR"

classify_swd_failure(r) ==
    IF r.status = "SWD_OK" /\ r.idcode # SWD_IDCODE_STM32G030
    THEN "FAIL_SWD_WRONG_ID"
    ELSE CASE r.status = "SWD_OK" -> "FAIL_SWD_ERROR"
           [] r.status = "SWD_ERROR" -> "FAIL_SWD_NO_TARGET"
           [] r.status \in {"SWD_ACK_FAULT", "SWD_PARITY_ERROR"} -> "FAIL_SWD_BUS_ERROR"
           [] r.status \in {"SWD_ACK_WAIT", "SWD_TIMEOUT"} -> "FAIL_SWD_BUS_ERROR"
           [] OTHER -> "FAIL_SWD_ERROR"

(* ------------------------------------------------------------------ *)
(*  Sequencer states of the design (spec 4.5) and where pc is in them   *)
(* ------------------------------------------------------------------ *)
StateOf(p) ==
    CASE p = "Idle" -> "Idle"
      [] p = "PreCheck" -> "PreCheck"
      [] p \in {"Latch", "LatchWait"} -> "Latch"
      [] p = "VerifyOn" -> "VerifyOn"
      [] p \in {"Unlatch", "UnlatchWait"} -> "Unlatch"
      [] p = "VerifyOff" -> "VerifyOff"
      [] p \in {"PreSwdLid", "SwdVerify", "SwdAttempt"} -> "SwdVerify"
      [] p = "DebugProbe" -> "DebugProbe"
      [] p \in {"Cleanup", "Done"} -> "Done"

Rank(s) ==
    CASE s = "Idle" -> 0
      [] s = "PreCheck" -> 1
      [] s = "Latch" -> 2
      [] s = "VerifyOn" -> 3
      [] s = "Unlatch" -> 4
      [] s = "VerifyOff" -> 5
      [] s = "SwdVerify" -> 6
      [] s = "DebugProbe" -> 7
      [] s = "Done" -> 8

\* history of states entered: extended whenever the step changes state
Visit(p) ==
    visited' = IF StateOf(p) # StateOf(pc) THEN Append(visited, StateOf(p))
               ELSE visited

\* "next statement is at label p"
Goto(p) == pc' = p /\ Visit(p)

GotoDone_KeepResult(outcome) == report' = report /\ Goto("Cleanup")

GotoDone_Return(outcome) ==
    report' = [report EXCEPT !.result = outcome] /\ Goto("Done")

\* report.result = outcome; goto done;
GotoDone(outcome) ==
    report' = [report EXCEPT !.result = outcome] /\ Goto("Cleanup")

(* ------------------------------------------------------------------ *)
(*  swd_host.c: words, parity, request byte, line operations            *)
(* ------------------------------------------------------------------ *)
SWD_IDLE_CYCLES == 4

SWD_WAIT_RETRIES == 8

SWD_WAIT_TIMEOUT_US == 200000

\* esp_rom_delay_us(100) after a WAIT acknowledgement
WAIT_DELAY_US == 100

\* swd_line_reset: clocks with SWDIO high
LINE_RESET_CLOCKS == 56

ABORT_CLEAR_ALL == 31

DP_ABORT == 0

DP_DPIDR == 0

DP_CTRLSTAT == 4

DP_SELECT == 8

DP_RDBUFF == 12

AP_CSW == 0

AP_TAR == 4

AP_DRW == 12

\* bounds of the transfer model, in us: time one request frame takes, a
\* delay by preemption
XferFrameUs == 40

XferStall == 100000

\* bit i of the unsigned number n (numbers here stay below 2^31)
Bit(n, i) == IF i > 30 THEN 0 ELSE (n \div (2 ^ i)) % 2

\* the w low bits of n, least significant first, as they go on the wire
BitsLSB(n, w) == [i \in 1..w |-> Bit(n, i - 1)]

\* a uint32_t is the sequence of its 32 bits, bit 0 first
Word(n) == BitsLSB(n, 32)

\* the uint32_t with exactly the bits of S set
WordOfBits(S) == [i \in 1..32 |-> IF (i - 1) \in S THEN 1 ELSE 0]

\* v >> n
Shr(v, n) == [i \in 1..32 |-> IF i + n <= 32 THEN v[i + n] ELSE 0]

\* a ^ b
Xor32(a, b) == [i \in 1..32 |-> (a[i] + b[i]) % 2]

\* a | b
Or32(a, b) == [i \in 1..32 |-> IF a[i] = 1 \/ b[i] = 1 THEN 1 ELSE 0]

\* a & b
And32(a, b) == [i \in 1..32 |-> IF a[i] = 1 /\ b[i] = 1 THEN 1 ELSE 0]

parity32_NoFold1(v) ==
    LET v1 == Xor32(v, Shr(v, 16))
        v2 == Xor32(v1, Shr(v1, 8))
        v3 == Xor32(v2, Shr(v2, 4))
        v4 == Xor32(v3, Shr(v3, 2))
    IN  v4[1]

parity32_NoFold16(v) ==
    LET v2 == Xor32(v, Shr(v, 8))
        v3 == Xor32(v2, Shr(v2, 4))
        v4 == Xor32(v3, Shr(v3, 2))
        v5 == Xor32(v4, Shr(v4, 1))
    IN  v5[1]

parity32(v) ==
    LET v1 == Xor32(v, Shr(v, 16))
        v2 == Xor32(v1, Shr(v1, 8))
        v3 == Xor32(v2, Shr(v2, 4))
        v4 == Xor32(v3, Shr(v3, 2))
        v5 == Xor32(v4, Shr(v4, 1))
    IN  v5[1]

swd_request_byte_ParityOmitsA3(APnDP, RnW, addr) ==
    LET a2 == (addr \div 4) % 2
        a3 == (addr \div 8) % 2
        parity == (APnDP + RnW + a2) % 2
    IN  1 + 2 * APnDP + 4 * RnW + 8 * a2 + 16 * a3 + 32 * parity + 64 * 0 + 128

swd_request_byte(APnDP, RnW, addr) ==
    LET a2 == (addr \div 4) % 2
        a3 == (addr \div 8) % 2
        parity == (APnDP + RnW + a2 + a3) % 2
    IN  1 + 2 * APnDP + 4 * RnW + 8 * a2 + 16 * a3 + 32 * parity + 64 * 0 + 128

\* swd_transfer's decoding of its request argument
RnW_of(request) == Bit(request, 2)

APnDP_of(request) == Bit(request, 1)

addr_of(request) == 4 * Bit(request, 3) + 8 * Bit(request, 4)

\* line operations, as recorded in wire
DirOut == [op |-> "dir_out", bits |-> <<>>, n |-> 0]

DirIn == [op |-> "dir_in", bits |-> <<>>, n |-> 0]

\* swdio_write(b) with no clock
Level(b) == [op |-> "level", bits |-> <<b>>, n |-> 0]

\* k clock pulses, SWDIO neither written nor sampled
Clocks(k) == [op |-> "clocks", bits |-> <<>>, n |-> k]

\* swd_write_bit for each bit of bs
Wr(bs) == [op |-> "write", bits |-> bs, n |-> Len(bs)]

\* swd_read_bit once per bit of bs, bs being what the target drove
Rd(bs) == [op |-> "read", bits |-> bs, n |-> Len(bs)]

swd_idle_cycles(k) == <<DirOut, Level(0), Clocks(k)>>

swd_line_reset == <<DirOut, Level(1), Clocks(LINE_RESET_CLOCKS)>>

WriteTurnaround_StillInput == <<Level(0), Clocks(1)>>

\* lines 344-351 (and 397-402 inline): the host takes the line back, then
\* one turnaround clock
WriteTurnaround == <<DirOut, Level(0), Clocks(1)>>

\* direct-wire levels of the clock line, lines 78-79
CLK_IDLE == 0

CLK_ACTIVE == 1

\* the clock levels of one pulse, as in swd_write_bit / swd_read_bit /
\* swd_idle_cycles: raised, then back to idle
ClockPulse == <<CLK_ACTIVE, CLK_IDLE>>

\* request byte out, turnaround, three ACK bits in
RequestPhase(request, ackbits) ==
    <<DirOut, Wr(BitsLSB(request, 8)), DirIn, Clocks(1), Rd(ackbits)>>

\* ack |= (swd_read_bit() << i)
AckValue(ackbits) == ackbits[1] + 2 * ackbits[2] + 4 * ackbits[3]

AckBits == [1..3 -> {0, 1}]

AckKind_LowBit(ack) ==
    CASE ack % 2 = 1 -> "OK"
      [] ack = 2 -> "WAIT"
      [] ack = 4 -> "FAULT"
      [] OTHER -> "PROTOCOL"

AckKind_FaultAsWait(ack) ==
    CASE ack = 1 -> "OK"
      [] ack = 2 -> "WAIT"
      [] ack = 4 -> "WAIT"
      [] OTHER -> "PROTOCOL"

\* the if / else if chain on ack (lines 319, 365, 376, 409)
AckKind(ack) ==
    CASE ack = 1 -> "OK"
      [] ack = 2 -> "WAIT"
      [] ack = 4 -> "FAULT"
      [] OTHER -> "PROTOCOL"

MoreWaitRetries_OneMore(wait_retry) == wait_retry <= SWD_WAIT_RETRIES

\* the loop condition wait_retry < SWD_WAIT_RETRIES
MoreWaitRetries(wait_retry) == wait_retry < SWD_WAIT_RETRIES

WaitDeadlinePassed_Never(t, deadline_us) == FALSE

\* esp_timer_get_time() > deadline
WaitDeadlinePassed(t, deadline_us) == t > deadline_us

ReadStore_BeforeParity(par, val, old) == val

\* lines 334-339: the word in *data after a read acknowledged OK
ReadStore(par, val, old) == IF par # parity32(val) THEN old ELSE val

\* words used as data: 0, 1, bit 16 alone, all ones
WordSamples == {Word(0), Word(1), WordOfBits({16}), WordOfBits(0..31)}

\* request bytes the register layer builds
Requests ==
    {swd_request_byte(ap, rw, a) : ap \in {0, 1}, rw \in {0, 1},
                                   a \in {0, 4, 8, 12}}

\* time one request frame may take
XferElapse == {XferFrameUs, XferStall, SWD_WAIT_TIMEOUT_US - WAIT_DELAY_US}

\* swd_transfer not called
NoXfer ==
    /\ xf = [pc |-> "off", request |-> 0, hasData |-> FALSE, wait_retry |-> 0,
             deadline |-> 0, ack |-> 0, ret |-> "none"]
    /\ xdata = Word(0)
    /\ xnow = 0
    /\ wire = <<>>
    /\ xh = [calls |-> 0, frames |-> 0, lateFrames |-> 0, acks |-> <<>>,
             data0 |-> Word(0), pastSeen |-> FALSE, aborts |-> 0]

(* ------------------------------------------------------------------ *)
(*  swd_host.c: register and memory access layer, constants and state   *)
(* ------------------------------------------------------------------ *)
CDBGPWRUPREQ == WordOfBits({28})

CSYSPWRUPREQ == WordOfBits({30})

CDBGPWRUPACK == WordOfBits({29})

CSYSPWRUPACK == WordOfBits({31})

CSW_SIZE32 == 2

CSW_ADDRINC_OFF == 0

CSW_ADDRINC_SGL == 16

CSW_DBGSTAT == 64

\* swd_powerup_debug: deadline of the poll loop, delay between polls, in us
POLL_TIMEOUT_US == 100000

POLL_DELAY_US == 100

\* swd_powerup_debug: SELECT value of AP bank 0xF, offset of IDR in the bank
SELECT_BANK_F == 240

AP_IDR_OFFSET == 12

\* flash base address read by the sequencer's diagnostic
FLASH_BASE == 134217728

\* bounds of the register-layer model: words in a block read, time one poll
\* transaction takes, a delay by preemption (us)
MaxWords == 3

\* largest number of iterations asked of swd_integrity_test
MaxIter == 3

PollXferUs == 19900

PollStall == 100000

PowerupAcked_Either(ctrl_stat) ==
    And32(ctrl_stat, Or32(CDBGPWRUPACK, CSYSPWRUPACK)) # Word(0)

\* (ctrl_stat & (CDBGPWRUPACK | CSYSPWRUPACK)) == (CDBGPWRUPACK | CSYSPWRUPACK)
PowerupAcked(ctrl_stat) ==
    And32(ctrl_stat, Or32(CDBGPWRUPACK, CSYSPWRUPACK))
      = Or32(CDBGPWRUPACK, CSYSPWRUPACK)

ReadApContinues_Always(st) == TRUE

\* swd_read_ap: if (st != SWD_OK) return st;
ReadApContinues(st) == st = "SWD_OK"

\* what a transaction leaves in the word its data pointer names: swd_transfer
\* stores the word read only on the path that returns SWD_OK
TransferStore(st, val, old) == IF st = "SWD_OK" THEN val ELSE old

\* one transaction as recorded in bus
Txn(ap, rnw, addr, wdata, st, rdata) ==
    [ap |-> ap, rnw |-> rnw, addr |-> addr, wdata |-> wdata, st |-> st,
     rdata |-> rdata]

\* words a target may return to the register layer: 0, one power-up
\* acknowledgement, both, the identifier of the STM32G030
RegWords ==
    {Word(0), CDBGPWRUPACK, Or32(CDBGPWRUPACK, CSYSPWRUPACK),
     Word(SWD_IDCODE_STM32G030)}

\* what a read transaction can answer: a status, and a word when Ok
ReadAnswers ==
    {[st |-> "SWD_OK", val |-> w] : w \in RegWords}
      \cup {[st |-> s, val |-> Word(0)] : s \in swd_status_t \ {"SWD_OK"}}

PollElapse == {PollXferUs, PollStall}

\* the register layer at rest
RegIdle ==
    [op |-> "off", pc |-> "off", addr |-> 0, n |-> 0, i |-> 0, st |-> "none",
     ret |-> "none", now |-> 0, deadline |-> 0, ctrl_stat |-> Word(0),
     ap_idr |-> Word(0), dummy |-> Word(0), apaddr |-> 0, dest |-> 0,
     written |-> {}, pollAt |-> 0]

NoReg ==
    /\ rg = RegIdle
    /\ rbuf = [i \in 1..MaxWords |-> Word(0)]
    /\ bus = <<>>

\* const uint16_t switch_seq = 0xE79E
switch_seq == 59294

\* swd_jtag_to_swd: the 16 bits of the switch sequence, bit 0 first
swd_jtag_to_swd == <<DirOut, Wr(BitsLSB(switch_seq, 16))>>

\* one entry of the history of the identification layer: a reset of the
\* target, a sequence on the line, a transaction, or a delay
Ev(kind, w, t) == [kind |-> kind, wire |-> w, txn |-> t]

EvResetTarget == Ev("reset_target", <<>>, <<>>)

EvLineReset == Ev("line_reset", swd_line_reset, <<>>)

EvJtagToSwd == Ev("jtag_to_swd", swd_jtag_to_swd, <<>>)

EvTxn(t) == Ev("txn", <<>>, <<t>>)

EvDelay == Ev("delay", <<>>, <<>>)

\* the identification layer at rest; result is the swd_verify_result_t of
\* swd_verify_target_detailed as initialised, pass_count / fail_count the
\* caller's counters (-1: not written)
IdcIdle ==
    [op |-> "off", pc |-> "off", iterations |-> 0, i |-> 0, attempt |-> 0,
     result |-> [status |-> "SWD_ERROR", idcode |-> Word(0), attempts |-> 0],
     idcode |-> Word(0), passes |-> 0, fails |-> 0, pass_count |-> -1,
     fail_count |-> -1, ret |-> "none"]

NoIdent ==
    /\ idc = IdcIdle
    /\ evlog = <<>>

\* a call of a pure function: swd_request_byte(APnDP, RnW, addr) with
\* result out, or parity32 with p the parity of v and out the parity of
\* the word received (v with bit flip - 1 inverted, v itself if flip = 0);
\* -1 is no result yet
PfIdle ==
    [fn |-> "off", APnDP |-> 0, RnW |-> 0, addr |-> 0, v |-> Word(0),
     flip |-> 0, p |-> -1, out |-> -1]

NoPure == pf = PfIdle

\* main.c, lines 58-60, before app_main: state = STATE_IDLE, unit_counter = 0;
\* no iteration of the loop yet, nothing logged
AppIdle ==
    [pc |-> "off", state |-> "STATE_IDLE", unit_counter |-> 0, nvs_unit |-> 0,
     led |-> [g |-> 0, r |-> 0], gateLid |-> "none", rows |-> <<>>,
     incs |-> 0, runs |-> 0, aborts |-> 0, openSinceRun |-> FALSE,
     last |-> "none"]

\* mock_hardware.c, lines 25-26: simulated_voltage = 0.0f (in tenths of a
\* volt), latched = false; at is the load sample the simulation was last
\* updated for, runs the number of runs completed, prev the outcome of the
\* previous run
MockOff ==
    [latched |-> FALSE, simulated_voltage |-> 0, at |-> 0, runs |-> 0,
     prev |-> "none"]

NoApp == app = AppIdle /\ mock = MockOff

NoCalls == NoIdent /\ NoPure /\ NoApp

NoEngine == NoXfer /\ NoReg /\ NoCalls

(* ------------------------------------------------------------------ *)
(*  Initial states                                                      *)
(* ------------------------------------------------------------------ *)
ReportInit_StatusOk ==
    [result |-> "TEST_PASS", swd_idcode |-> 0, swd_attempts |-> 0,
     swd_status |-> "SWD_OK", duration_ms |-> 0]

\* the initialiser of report, lines 287-293
ReportInit ==
    [result |-> "TEST_PASS", swd_idcode |-> 0, swd_attempts |-> 0,
     swd_status |-> "SWD_ERROR", duration_ms |-> 0]

InitSeq ==
    /\ pc = "Idle"
    /\ gpio = [start |-> 1, stop |-> 1]
    /\ report = ReportInit
    /\ now = 0
    /\ deadline = TEST_TIMEOUT_MS
    /\ remaining = 0
    /\ attempt = 0
    /\ swd_r = [status |-> "SWD_ERROR", idcode |-> 0, attempts |-> 0]
    /\ obs = [lidEntry |-> "none", loadPre |-> "none", loadOn |-> "none",
              loadOff |-> "none", lidSwd |-> "none", lidWait |-> "none"]
    /\ pressCount = 0
    /\ levelChanges = 0
    /\ loadSamples = 0
    /\ swdOps = 0
    /\ abortRecoveries = 0
    /\ cleanupCount = 0
    /\ forceSafeCount = 0
    /\ swdSafeCount = 0
    /\ waitPolls = [chunks |-> 0, lidSamples |-> 0, maxChunk |-> 0]
    /\ aborted = FALSE
    /\ visited = <<"Idle">>
    /\ dbg = [powerup |-> "none", mem |-> "none"]
    /\ attemptLog = <<>>

NoClassify == cls_in = "none" /\ cls_out = "none"

Init == InitSeq /\ NoClassify /\ NoEngine

(* ------------------------------------------------------------------ *)
(*  run_production_test_v2, step by step                                *)
(* ------------------------------------------------------------------ *)
seqLocals == <<remaining, attempt, swd_r>>

histCounters ==
    <<pressCount, levelChanges, loadSamples, swdOps, abortRecoveries,
      cleanupCount, forceSafeCount, swdSafeCount, waitPolls, aborted, dbg,
      attemptLog>>

\* Step 0: safety interlock at entry
EntryGate ==
    /\ pc = "Idle"
    /\ \E lid \in {0, 1}, d \in Elapse :
          /\ obs' = [obs EXCEPT !.lidEntry = IF lid = 1 THEN "open" ELSE "closed"]
          /\ IF LID_IS_OPEN(lid)
             THEN GotoDone("FAIL_SAFETY_OPEN")
             ELSE report' = report /\ Goto("PreCheck")
          /\ now' = Tick(now, d)
    /\ UNCHANGED <<gpio, deadline, seqLocals, histCounters, clsVars, engVars>>

\* Step 1: pre-check, the load must be off
PreCheck ==
    /\ pc = "PreCheck"
    /\ \E d \in Elapse : now' = Tick(now, d)
    /\ IF deadline_expired(now, deadline)
       THEN /\ GotoDone("FAIL_TIMEOUT")
            /\ UNCHANGED <<obs, loadSamples>>
       ELSE \E load \in {0, 1} :
              /\ loadSamples' = loadSamples + 1
              /\ obs' = [obs EXCEPT !.loadPre = IF load = 1 THEN "on" ELSE "off"]
              /\ IF load_is_on(load)
                 THEN GotoDone("FAIL_STUCK_ON")
                 ELSE report' = report /\ Goto("Latch")
    /\ UNCHANGED <<gpio, deadline, seqLocals, pressCount, levelChanges, swdOps,
                   abortRecoveries, cleanupCount, forceSafeCount, swdSafeCount,
                   waitPolls, aborted, dbg, attemptLog,
                   clsVars, engVars>>

\* Step 2: drive START and STOP low, enter safe_delay_ms(SETTLE_MS)
Latch ==
    /\ pc = "Latch"
    /\ \E d \in Elapse : now' = Tick(now, d)
    /\ IF deadline_expired(now, deadline)
       THEN /\ GotoDone("FAIL_TIMEOUT")
            /\ UNCHANGED <<gpio, remaining, pressCount, levelChanges>>
       ELSE /\ gpio' = [gpio EXCEPT !.start = 0, !.stop = 0]
            /\ pressCount' = pressCount + 2
            /\ levelChanges' = levelChanges + Changes(gpio, gpio')
            /\ remaining' = SETTLE_MS
            /\ report' = report
            /\ Goto("LatchWait")
    /\ UNCHANGED <<deadline, attempt, swd_r, obs, loadSamples, swdOps,
                   abortRecoveries, cleanupCount, forceSafeCount, swdSafeCount,
                   waitPolls, aborted, dbg, attemptLog,
                   clsVars, engVars>>

\* one iteration of the loop of safe_delay_ms, and the caller's test of
\* its return value when the loop ends
SafeDelayStep ==
    /\ pc \in {"LatchWait", "UnlatchWait"}
    /\ remaining > 0
    /\ \E lid \in {0, 1}, d \in Elapse :
         LET chunk == safe_delay_chunk(remaining)
         IN  /\ now' = Tick(now, chunk + d)
             /\ remaining' = remaining - chunk
             /\ waitPolls' = [chunks |-> waitPolls.chunks + 1,
                              lidSamples |-> waitPolls.lidSamples + 1,
                              maxChunk |-> IF chunk > waitPolls.maxChunk
                                           THEN chunk ELSE waitPolls.maxChunk]
             /\ obs' = [obs EXCEPT !.lidWait = IF lid = 1 THEN "open" ELSE "closed"]
             /\ IF LID_IS_OPEN(lid)
                THEN /\ gpio' = force_outputs_safe(gpio)
                     /\ forceSafeCount' = forceSafeCount + 1
                     /\ levelChanges' = levelChanges + Changes(gpio, gpio')
                     /\ aborted' = TRUE
                     /\ GotoDone("FAIL_SAFETY_OPEN")
                ELSE /\ UNCHANGED <<gpio, forceSafeCount, levelChanges, aborted>>
                     /\ report' = report
                     /\ IF remaining' > 0
                        THEN Goto(pc)
                        ELSE Goto(IF pc = "LatchWait" THEN "VerifyOn"
                                  ELSE "VerifyOff")
    /\ UNCHANGED <<deadline, attempt, swd_r, pressCount, loadSamples,
                   swdOps, abortRecoveries, cleanupCount, swdSafeCount, dbg,
                   attemptLog, clsVars, engVars>>

\* Step 3: the load must now be on
VerifyOn ==
    /\ pc = "VerifyOn"
    /\ \E d \in Elapse : now' = Tick(now, d)
    /\ IF deadline_expired(now, deadline)
       THEN /\ GotoDone("FAIL_TIMEOUT")
            /\ UNCHANGED <<obs, loadSamples>>
       ELSE \E load \in {0, 1} :
              /\ loadSamples' = loadSamples + 1
              /\ obs' = [obs EXCEPT !.loadOn = IF load = 1 THEN "on" ELSE "off"]
              /\ IF LatchFailed(load)
                 THEN GotoDone("FAIL_NO_LATCH")
                 ELSE report' = report /\ Goto("Unlatch")
    /\ UNCHANGED <<gpio, deadline, seqLocals, pressCount, levelChanges, swdOps,
                   abortRecoveries, cleanupCount, forceSafeCount, swdSafeCount,
                   waitPolls, aborted, dbg, attemptLog,
                   clsVars, engVars>>

UnlatchLevels_StopOnly(g) == [g EXCEPT !.stop = 1]

\* lines 355-356: gpio_set_level(PIN_SIM_START, 1); (PIN_SIM_STOP, 1)
UnlatchLevels(g) == [g EXCEPT !.start = 1, !.stop = 1]

\* Step 4: release both lines, enter safe_delay_ms(SETTLE_MS)
Unlatch ==
    /\ pc = "Unlatch"
    /\ \E d \in Elapse : now' = Tick(now, d)
    /\ IF deadline_expired(now, deadline)
       THEN /\ GotoDone("FAIL_TIMEOUT")
            /\ UNCHANGED <<gpio, remaining, levelChanges>>
       ELSE /\ gpio' = UnlatchLevels(gpio)
            /\ levelChanges' = levelChanges + Changes(gpio, gpio')
            /\ remaining' = SETTLE_MS
            /\ report' = report
            /\ Goto("UnlatchWait")
    /\ UNCHANGED <<deadline, attempt, swd_r, obs, pressCount, loadSamples,
                   swdOps, abortRecoveries, cleanupCount, forceSafeCount,
                   swdSafeCount, waitPolls, aborted, dbg, attemptLog,
                   clsVars, engVars>>

\* Step 5: the load must now be off
VerifyOff ==
    /\ pc = "VerifyOff"
    /\ \E d \in Elapse : now' = Tick(now, d)
    /\ IF deadline_expired(now, deadline)
       THEN /\ GotoDone("FAIL_TIMEOUT")
            /\ UNCHANGED <<obs, loadSamples>>
       ELSE \E load \in {0, 1} :
              /\ loadSamples' = loadSamples + 1
              /\ obs' = [obs EXCEPT !.loadOff = IF load = 1 THEN "on" ELSE "off"]
              /\ IF UnlatchFailed(load)
                 THEN GotoDone("FAIL_STUCK_LATCHED")
                 ELSE report' = report /\ Goto("PreSwdLid")
    /\ UNCHANGED <<gpio, deadline, seqLocals, pressCount, levelChanges, swdOps,
                   abortRecoveries, cleanupCount, forceSafeCount, swdSafeCount,
                   waitPolls, aborted, dbg, attemptLog,
                   clsVars, engVars>>

\* Step 6: final lid check before SWD
PreSwdLid ==
    /\ pc = "PreSwdLid"
    /\ \E lid \in {0, 1}, d \in Elapse :
          /\ obs' = [obs EXCEPT !.lidSwd = IF lid = 1 THEN "open" ELSE "closed"]
          /\ IF LID_IS_OPEN(lid)
             THEN GotoDone("FAIL_SAFETY_OPEN")
             ELSE report' = report /\ Goto("SwdVerify")
          /\ now' = Tick(now, d)
    /\ UNCHANGED <<gpio, deadline, seqLocals, histCounters, clsVars, engVars>>

\* Step 7, first half: deadline check, then entry of
\* swd_verify_target_detailed (result initialised, attempt = 1)
SwdVerify ==
    /\ pc = "SwdVerify"
    /\ \E d \in Elapse : now' = Tick(now, d)
    /\ IF deadline_expired(now, deadline)
       THEN /\ GotoDone("FAIL_TIMEOUT")
            /\ UNCHANGED <<attempt, swd_r>>
       ELSE /\ attempt' = 1
            /\ swd_r' = [status |-> "SWD_ERROR", idcode |-> 0, attempts |-> 0]
            /\ report' = report
            /\ Goto("SwdAttempt")
    /\ UNCHANGED <<gpio, deadline, remaining, obs, histCounters, clsVars, engVars>>

\* what one swd_read_dp(DP_DPIDR, &idcode) can leave in (st, idcode):
\* idcode starts at 0 and swd_transfer stores a word only when it returns Ok
ReadIdOutcomes ==
    {[status |-> "SWD_OK", idcode |-> id] : id \in IdCodes}
      \cup {[status |-> st, idcode |-> 0] : st \in swd_status_t \ {"SWD_OK"}}

ReportedAttempts_Hardcoded(r) == IF r.status = "SWD_OK" THEN 1 ELSE SWD_MAX_RETRIES

\* line 393: report.swd_attempts = swd_r.attempts
ReportedAttempts(r) == r.attempts

\* lines 392-408: copy the verify result into the report, then continue to
\* the debug probe or classify the failure and leave
TakeVerifyResult(r) ==
    LET rep == [report EXCEPT !.swd_idcode = r.idcode,
                              !.swd_attempts = ReportedAttempts(r),
                              !.swd_status = r.status]
    IN  IF r.status = "SWD_OK" /\ r.idcode = SWD_IDCODE_STM32G030
        THEN report' = rep /\ Goto("DebugProbe")
        ELSE /\ report' = [rep EXCEPT !.result = classify_swd_failure(r)]
             /\ Goto("Cleanup")

\* Step 7, second half: one iteration of the attempt loop of
\* swd_verify_target_detailed; when the loop ends, the caller's handling
\* of the returned result
SwdAttempt ==
    /\ pc = "SwdAttempt"
    /\ \E o \in ReadIdOutcomes, d \in Elapse :
         LET r == [status |-> o.status, idcode |-> o.idcode, attempts |-> attempt]
             again == ~IdMatches(r) /\ attempt < SWD_MAX_RETRIES
         IN  /\ swd_r' = r
             /\ swdOps' = swdOps + 1
             /\ attemptLog' = Append(attemptLog, o.status)
             /\ now' = Tick(now, RESET_ASSERT_MS + RESET_SETTLE_MS
                                   + (IF again THEN SWD_RETRY_MS ELSE 0) + d)
             /\ IF again
                THEN /\ attempt' = attempt + 1
                     /\ abortRecoveries' =
                          abortRecoveries
                            + (IF r.status = "SWD_ACK_FAULT" THEN 1 ELSE 0)
                     /\ report' = report
                     /\ Goto("SwdAttempt")
                ELSE /\ UNCHANGED <<attempt, abortRecoveries>>
                     /\ TakeVerifyResult(r)
    /\ UNCHANGED <<gpio, deadline, remaining, obs, pressCount, levelChanges,
                   loadSamples, cleanupCount, forceSafeCount, swdSafeCount,
                   waitPolls, aborted, dbg, clsVars, engVars>>

ProbeReadsMemory_Always(dbg_st) == TRUE

\* line 414: if (dbg_st == SWD_OK), the branch of the memory read
ProbeReadsMemory(dbg_st) == dbg_st = "SWD_OK"

ProbeResult_FailOnError(dbg_st, mem_st) ==
    IF dbg_st = "SWD_OK" /\ mem_st = "SWD_OK" THEN "TEST_PASS" ELSE "FAIL_SWD_ERROR"

\* Step 8 sets no outcome from the two statuses; line 440: result = TEST_PASS
ProbeResult(dbg_st, mem_st) == "TEST_PASS"

\* Step 8: debug power-up and, when it succeeds, one diagnostic memory
\* read; informational only
DebugProbe ==
    /\ pc = "DebugProbe"
    /\ \E dbg_st \in swd_status_t, mem_st \in swd_status_t, d \in Elapse :
          /\ dbg' = [powerup |-> dbg_st,
                     mem |-> IF ProbeReadsMemory(dbg_st) THEN mem_st ELSE "none"]
          /\ swdOps' = swdOps + 1 + (IF ProbeReadsMemory(dbg_st) THEN 1 ELSE 0)
          /\ now' = Tick(now, d)
          /\ report' = [report EXCEPT !.result = ProbeResult(dbg_st, mem_st)]
    /\ Goto("Cleanup")
    /\ UNCHANGED <<gpio, deadline, seqLocals, obs, pressCount, levelChanges,
                   loadSamples, abortRecoveries, cleanupCount, forceSafeCount,
                   swdSafeCount, waitPolls, aborted, attemptLog, clsVars, engVars>>

\* done: force the outputs safe, swd_safe_state(), record the duration,
\* return the report
Cleanup ==
    /\ pc = "Cleanup"
    /\ gpio' = force_outputs_safe(gpio)
    /\ forceSafeCount' = forceSafeCount + 1
    /\ levelChanges' = levelChanges + Changes(gpio, gpio')
    /\ swdSafeCount' = swdSafeCount + 1
    /\ cleanupCount' = cleanupCount + 1
    /\ report' = [report EXCEPT !.duration_ms = now]
    /\ Goto("Done")
    /\ UNCHANGED <<now, deadline, seqLocals, obs, pressCount, loadSamples,
                   swdOps, abortRecoveries, waitPolls, aborted, dbg, attemptLog,
                   clsVars, engVars>>

Next ==
    \/ EntryGate
    \/ PreCheck
    \/ Latch
    \/ SafeDelayStep
    \/ VerifyOn
    \/ Unlatch
    \/ VerifyOff
    \/ PreSwdLid
    \/ SwdVerify
    \/ SwdAttempt
    \/ DebugProbe
    \/ Cleanup

Spec == Init /\ [][Next]_vars

(* ------------------------------------------------------------------ *)
(*  classify_swd_failure on its own: every verify result as argument    *)
(* ------------------------------------------------------------------ *)
VerifyResults ==
    [status : swd_status_t, idcode : IdCodes, attempts : 1..SWD_MAX_RETRIES]

InitClassify ==
    /\ InitSeq
    /\ cls_in \in VerifyResults
    /\ cls_out = "none"
    /\ NoEngine

Classify ==
    /\ cls_out = "none"
    /\ cls_out' = classify_swd_failure(cls_in)
    /\ UNCHANGED <<cls_in, seqVars, engVars>>

NextClassify == Classify

SpecClassify == InitClassify /\ [][NextClassify]_vars

(* ------------------------------------------------------------------ *)
(*  swd_transfer on its own: one call, every request, every answer      *)
(* ------------------------------------------------------------------ *)
notXfer == <<seqVars, clsVars, regVars, identVars, pureVars, appVars>>

InitXfer ==
    /\ InitSeq
    /\ NoClassify
    /\ \E request \in Requests, hasData \in BOOLEAN :
          xf = [pc |-> "entry", request |-> request, hasData |-> hasData,
                wait_retry |-> 0, deadline |-> 0, ack |-> 0, ret |-> "none"]
    /\ xdata \in IF xf.hasData THEN WordSamples ELSE {Word(0)}
    /\ xnow = 0
    /\ wire = <<>>
    /\ xh = [calls |-> 0, frames |-> 0, lateFrames |-> 0, acks |-> <<>>,
             data0 |-> xdata, pastSeen |-> FALSE, aborts |-> 0]
    /\ NoReg
    /\ NoCalls

\* return st;
XferReturn(st) == xf' = [xf EXCEPT !.pc = "ret", !.ret = st]

\* lines 283-293: deadline = now + SWD_WAIT_TIMEOUT_US, wait_retry = 0
XferEntry ==
    /\ xf.pc = "entry"
    /\ xf' = [xf EXCEPT !.pc = "frame",
                        !.deadline = xnow + SWD_WAIT_TIMEOUT_US,
                        !.wait_retry = 0]
    /\ xh' = [xh EXCEPT !.calls = @ + 1]
    /\ UNCHANGED <<xdata, xnow, wire, notXfer>>

\* lines 293-312: loop condition true; request byte, turnaround, ACK
XferSendRequest ==
    /\ xf.pc = "frame"
    /\ MoreWaitRetries(xf.wait_retry)
    /\ \E ackbits \in AckBits, d \in XferElapse :
          /\ wire' = wire \o RequestPhase(xf.request, ackbits)
          /\ xf' = [xf EXCEPT !.pc = "ack", !.ack = AckValue(ackbits)]
          /\ xnow' = xnow + d
          /\ xh' = [xh EXCEPT
                      !.frames = @ + 1,
                      !.lateFrames = @ + (IF xnow > xf.deadline THEN 1 ELSE 0),
                      !.acks = Append(@, AckValue(ackbits))]
    /\ UNCHANGED <<xdata, notXfer>>

\* lines 419-420: loop condition false
XferWaitExhausted ==
    /\ xf.pc = "frame"
    /\ ~MoreWaitRetries(xf.wait_retry)
    /\ XferReturn("SWD_ACK_WAIT")
    /\ UNCHANGED <<xdata, xnow, wire, xh, notXfer>>

\* lines 321-341: ACK OK, read
XferAckOkRead ==
    /\ xf.pc = "ack"
    /\ AckKind(xf.ack) = "OK"
    /\ RnW_of(xf.request) = 1
    /\ \E val \in WordSamples, par \in {0, 1} :
          /\ wire' = wire \o <<Rd(val), Rd(<<par>>), DirOut, Level(0)>>
                          \o swd_idle_cycles(SWD_IDLE_CYCLES)
          /\ xdata' = IF xf.hasData THEN ReadStore(par, val, xdata) ELSE xdata
          /\ XferReturn(IF par # parity32(val) THEN "SWD_PARITY_ERROR"
                        ELSE "SWD_OK")
    /\ UNCHANGED <<xnow, xh, notXfer>>

\* lines 342-364: ACK OK, write
XferAckOkWrite ==
    /\ xf.pc = "ack"
    /\ AckKind(xf.ack) = "OK"
    /\ RnW_of(xf.request) = 0
    /\ LET val == IF xf.hasData THEN xdata ELSE Word(0)
       IN  wire' = wire \o WriteTurnaround
                        \o <<Wr(val), Wr(<<parity32(val)>>)>>
                        \o swd_idle_cycles(SWD_IDLE_CYCLES)
    /\ XferReturn("SWD_OK")
    /\ UNCHANGED <<xdata, xnow, xh, notXfer>>

\* lines 365-375: ACK WAIT
XferAckWait ==
    /\ xf.pc = "ack"
    /\ AckKind(xf.ack) = "WAIT"
    /\ wire' = wire \o <<DirOut>> \o swd_idle_cycles(SWD_IDLE_CYCLES)
    /\ xnow' = xnow + WAIT_DELAY_US
    /\ IF WaitDeadlinePassed(xnow', xf.deadline)
       THEN XferReturn("SWD_TIMEOUT")
       ELSE xf' = [xf EXCEPT !.pc = "frame", !.wait_retry = @ + 1]
    /\ xh' = [xh EXCEPT !.pastSeen = @ \/ xnow' > xf.deadline]
    /\ UNCHANGED <<xdata, notXfer>>

\* lines 376-408: ACK FAULT, inline ABORT write
XferAckFault ==
    /\ xf.pc = "ack"
    /\ AckKind(xf.ack) = "FAULT"
    /\ \E abits \in AckBits :
          wire' = wire \o <<DirOut>> \o swd_idle_cycles(SWD_IDLE_CYCLES)
                       \o RequestPhase(swd_request_byte(0, 0, DP_ABORT), abits)
                       \o WriteTurnaround
                       \o <<Wr(Word(ABORT_CLEAR_ALL)),
                            Wr(<<parity32(Word(ABORT_CLEAR_ALL))>>)>>
                       \o swd_idle_cycles(SWD_IDLE_CYCLES)
    /\ xh' = [xh EXCEPT !.aborts = @ + 1]
    /\ XferReturn("SWD_ACK_FAULT")
    /\ UNCHANGED <<xdata, xnow, notXfer>>

\* lines 409-416: any other ACK, line reset
XferAckProtocol ==
    /\ xf.pc = "ack"
    /\ AckKind(xf.ack) = "PROTOCOL"
    /\ wire' = wire \o <<DirOut>> \o swd_idle_cycles(SWD_IDLE_CYCLES)
                    \o swd_line_reset
    /\ XferReturn("SWD_ERROR")
    /\ UNCHANGED <<xdata, xnow, xh, notXfer>>

NextXfer ==
    \/ XferEntry
    \/ XferSendRequest
    \/ XferWaitExhausted
    \/ XferAckOkRead
    \/ XferAckOkWrite
    \/ XferAckWait
    \/ XferAckFault
    \/ XferAckProtocol

SpecXfer == InitXfer /\ [][NextXfer]_vars

\* the call is being executed: its steps are taken as long as one is enabled
SpecXferLive == SpecXfer /\ WF_vars(NextXfer)

(* ------------------------------------------------------------------ *)
(*  Register and memory access layer: one call of swd_read_dp,          *)
(*  swd_read_ap, swd_mem_read32, swd_mem_read_block or                  *)
(*  swd_powerup_debug, one transaction per step                         *)
(* ------------------------------------------------------------------ *)
notReg == <<seqVars, clsVars, xferVars, identVars, pureVars, appVars>>

\* the calls made to the layer; dest names the word a read stores into:
\* k >= 1 the caller's word k, 0 a local of the layer
RegCalls ==
    {[RegIdle EXCEPT !.op = "read_dp", !.pc = "rd_dp", !.addr = a, !.dest = 1] :
        a \in {DP_DPIDR, DP_CTRLSTAT, DP_SELECT, DP_RDBUFF}}
      \cup {[RegIdle EXCEPT !.op = "read_ap", !.pc = "ra_ap", !.apaddr = a,
                            !.dest = 1] : a \in {AP_CSW, AP_TAR, AP_DRW}}
      \cup {[RegIdle EXCEPT !.op = "mem_read32", !.pc = "m_csw",
                            !.addr = FLASH_BASE, !.dest = 1]}
      \cup {[RegIdle EXCEPT !.op = "mem_read_block", !.pc = "b_entry",
                            !.addr = FLASH_BASE, !.n = k] : k \in 0..MaxWords}
      \cup {[RegIdle EXCEPT !.op = "powerup", !.pc = "pu_write"]}

InitReg ==
    /\ InitSeq
    /\ NoClassify
    /\ NoXfer
    /\ NoCalls
    /\ rg \in RegCalls
    /\ rbuf = [i \in 1..MaxWords |-> Word(0)]
    /\ bus = <<>>

\* return st;
Ret(r, st) == [r EXCEPT !.pc = "ret", !.ret = st]

Go(r, p) == [r EXCEPT !.pc = p]

\* swd_transfer(req, &word k of the caller) answered ans: the caller's words
BufAfter(k, ans) ==
    IF k >= 1 THEN [rbuf EXCEPT ![k] = TransferStore(ans.st, ans.val, @)]
    ELSE rbuf

\* the same transaction: the layer's own record (local ap_idr, and which of
\* the caller's words have been stored into)
Mark(r, k, ans) ==
    IF k >= 1
    THEN [r EXCEPT !.written = IF ans.st = "SWD_OK" THEN @ \cup {k} ELSE @]
    ELSE [r EXCEPT !.ap_idr = TransferStore(ans.st, ans.val, @)]

ReadTxn(ap, addr, ans) ==
    bus' = Append(bus, Txn(ap, 1, addr, Word(0), ans.st, ans.val))

WriteTxn(ap, addr, wdata, st) ==
    bus' = Append(bus, Txn(ap, 0, addr, wdata, st, Word(0)))

\* swd_read_dp
RegReadDp ==
    /\ rg.pc = "rd_dp"
    /\ \E ans \in ReadAnswers :
          /\ ReadTxn(0, rg.addr, ans)
          /\ rbuf' = BufAfter(rg.dest, ans)
          /\ rg' = Ret(Mark(rg, rg.dest, ans), ans.st)
    /\ UNCHANGED notReg

\* where swd_read_ap returns to
ReadApDone(r, st) ==
    IF r.op = "powerup" THEN [r EXCEPT !.pc = "pu_idr_done", !.st = st]
    ELSE Ret(r, st)

\* swd_read_ap, lines 453-455: the posted AP read
ReadApPosted ==
    /\ rg.pc = "ra_ap"
    /\ \E ans \in ReadAnswers :
          /\ ReadTxn(1, rg.apaddr, ans)
          /\ rbuf' = BufAfter(rg.dest, ans)
          /\ rg' = IF ReadApContinues(ans.st)
                   THEN Go(Mark(rg, rg.dest, ans), "ra_rdbuff")
                   ELSE ReadApDone(Mark(rg, rg.dest, ans), ans.st)
    /\ UNCHANGED notReg

\* swd_read_ap, line 458: return swd_read_dp(DP_RDBUFF, value)
ReadApRdbuff ==
    /\ rg.pc = "ra_rdbuff"
    /\ \E ans \in ReadAnswers :
          /\ ReadTxn(0, DP_RDBUFF, ans)
          /\ rbuf' = BufAfter(rg.dest, ans)
          /\ rg' = ReadApDone(Mark(rg, rg.dest, ans), ans.st)
    /\ UNCHANGED notReg

\* swd_mem_read32 / swd_mem_read_block: the CSW write
MemCsw ==
    /\ rg.pc = "m_csw"
    /\ \E st \in swd_status_t :
          /\ WriteTxn(1, AP_CSW,
                      Or32(Word(CSW_SIZE32),
                           Or32(Word(IF rg.op = "mem_read32" THEN CSW_ADDRINC_OFF
                                     ELSE CSW_ADDRINC_SGL),
                                Word(CSW_DBGSTAT))), st)
          /\ rg' = IF st = "SWD_OK" THEN Go(rg, "m_tar") ELSE Ret(rg, st)
    /\ UNCHANGED <<rbuf, notReg>>

\* swd_mem_read32 / swd_mem_read_block: the TAR write
MemTar ==
    /\ rg.pc = "m_tar"
    /\ \E st \in swd_status_t :
          /\ WriteTxn(1, AP_TAR, Word(rg.addr), st)
          /\ rg' = IF st # "SWD_OK" THEN Ret(rg, st)
                   ELSE IF rg.op = "mem_read32"
                        THEN [rg EXCEPT !.pc = "ra_ap", !.apaddr = AP_DRW]
                        ELSE Go(rg, "b_prime")
    /\ UNCHANGED <<rbuf, notReg>>

\* swd_mem_read_block, line 564
BlockEntry ==
    /\ rg.pc = "b_entry"
    /\ rg' = IF rg.n = 0 THEN Ret(rg, "SWD_OK") ELSE Go(rg, "m_csw")
    /\ UNCHANGED <<rbuf, bus, notReg>>

\* swd_mem_read_block, lines 575-578: first posted read, into dummy
BlockPrime ==
    /\ rg.pc = "b_prime"
    /\ \E ans \in ReadAnswers :
          /\ ReadTxn(1, AP_DRW, ans)
          /\ rg' = LET r == [rg EXCEPT !.dummy = TransferStore(ans.st, ans.val, @)]
                   IN  IF ans.st = "SWD_OK" THEN [r EXCEPT !.pc = "b_loop", !.i = 0]
                       ELSE Ret(r, ans.st)
    /\ UNCHANGED <<rbuf, notReg>>

BlockMore_UpToCount(i, word_count) == i < word_count

\* swd_mem_read_block, line 581: i < word_count - 1
BlockMore(i, word_count) == i < word_count - 1

BlockDest_Next(i) == i + 2

\* swd_mem_read_block, line 582: &buf[i] (the caller's words are numbered
\* from 1 here)
BlockDest(i) == i + 1

\* swd_mem_read_block, lines 581-584: one iteration, into buf[i]
BlockLoop ==
    /\ rg.pc = "b_loop"
    /\ BlockMore(rg.i, rg.n)
    /\ \E ans \in ReadAnswers :
          /\ ReadTxn(1, AP_DRW, ans)
          /\ rbuf' = BufAfter(BlockDest(rg.i), ans)
          /\ rg' = LET r == Mark(rg, BlockDest(rg.i), ans)
                   IN  IF ans.st = "SWD_OK" THEN [r EXCEPT !.i = @ + 1]
                       ELSE Ret(r, ans.st)
    /\ UNCHANGED notReg

\* swd_mem_read_block, lines 587-588: last word from RDBUFF
BlockFinal ==
    /\ rg.pc = "b_loop"
    /\ ~BlockMore(rg.i, rg.n)
    /\ \E ans \in ReadAnswers :
          /\ ReadTxn(0, DP_RDBUFF, ans)
          /\ rbuf' = BufAfter(rg.n, ans)
          /\ rg' = Ret(Mark(rg, rg.n, ans), ans.st)
    /\ UNCHANGED notReg

\* swd_powerup_debug, lines 470-478: power-up request, poll deadline
PuWrite ==
    /\ rg.pc = "pu_write"
    /\ \E st \in swd_status_t, d \in {0, PollStall} :
          /\ WriteTxn(0, DP_CTRLSTAT, Or32(CDBGPWRUPREQ, CSYSPWRUPREQ), st)
          /\ rg' = IF st # "SWD_OK" THEN Ret(rg, st)
                   ELSE [rg EXCEPT !.pc = "pu_poll",
                                   !.deadline = rg.now + POLL_TIMEOUT_US,
                                   !.ctrl_stat = Word(0),
                                   !.now = @ + d]
    /\ UNCHANGED <<rbuf, notReg>>

\* lines 479-490: one iteration of the poll loop
PuPoll ==
    /\ rg.pc = "pu_poll"
    /\ rg.now < rg.deadline
    /\ \E ans \in ReadAnswers, d \in PollElapse :
          /\ ReadTxn(0, DP_CTRLSTAT, ans)
          /\ rg' = LET r == [rg EXCEPT
                               !.ctrl_stat = TransferStore(ans.st, ans.val, @),
                               !.pollAt = rg.now]
                   IN  IF ans.st # "SWD_OK" THEN Ret(r, ans.st)
                       ELSE IF PowerupAcked(r.ctrl_stat)
                            THEN [r EXCEPT !.pc = "pu_check", !.now = @ + d]
                            ELSE [r EXCEPT !.now = @ + d + POLL_DELAY_US]
    /\ UNCHANGED <<rbuf, notReg>>

\* line 479: the loop condition is false
PuPollEnd ==
    /\ rg.pc = "pu_poll"
    /\ ~(rg.now < rg.deadline)
    /\ rg' = Go(rg, "pu_check")
    /\ UNCHANGED <<rbuf, bus, notReg>>

\* lines 492-497
PuAckCheck ==
    /\ rg.pc = "pu_check"
    /\ rg' = IF ~PowerupAcked(rg.ctrl_stat) THEN Ret(rg, "SWD_TIMEOUT")
             ELSE Go(rg, "pu_sel0")
    /\ UNCHANGED <<rbuf, bus, notReg>>

\* lines 500-504: SELECT = 0
PuSelect0 ==
    /\ rg.pc = "pu_sel0"
    /\ \E st \in swd_status_t :
          /\ WriteTxn(0, DP_SELECT, Word(0), st)
          /\ rg' = IF st = "SWD_OK" THEN Go(rg, "pu_selF") ELSE Ret(rg, st)
    /\ UNCHANGED <<rbuf, notReg>>

\* lines 507-511: SELECT = 0xF0, then call swd_read_ap(0x0C, &ap_idr)
PuSelectF ==
    /\ rg.pc = "pu_selF"
    /\ \E st \in swd_status_t :
          /\ WriteTxn(0, DP_SELECT, Word(SELECT_BANK_F), st)
          /\ rg' = IF st = "SWD_OK"
                   THEN [rg EXCEPT !.pc = "ra_ap", !.apaddr = AP_IDR_OFFSET,
                                   !.dest = 0, !.ap_idr = Word(0)]
                   ELSE Ret(rg, st)
    /\ UNCHANGED <<rbuf, notReg>>

\* lines 512-515: status of the AP IDR read
PuIdrDone ==
    /\ rg.pc = "pu_idr_done"
    /\ rg' = IF rg.st # "SWD_OK" THEN Ret(rg, rg.st) ELSE Go(rg, "pu_restore")
    /\ UNCHANGED <<rbuf, bus, notReg>>

\* lines 521-522: SELECT = 0 again, return its status
PuRestore ==
    /\ rg.pc = "pu_restore"
    /\ \E st \in swd_status_t :
          /\ WriteTxn(0, DP_SELECT, Word(0), st)
          /\ rg' = Ret(rg, st)
    /\ UNCHANGED <<rbuf, notReg>>

NextReg ==
    \/ RegReadDp
    \/ ReadApPosted
    \/ ReadApRdbuff
    \/ MemCsw
    \/ MemTar
    \/ BlockEntry
    \/ BlockPrime
    \/ BlockLoop
    \/ BlockFinal
    \/ PuWrite
    \/ PuPoll
    \/ PuPollEnd
    \/ PuAckCheck
    \/ PuSelect0
    \/ PuSelectF
    \/ PuIdrDone
    \/ PuRestore

SpecReg == InitReg /\ [][NextReg]_vars

(* ------------------------------------------------------------------ *)
(*  The SWD host as a whole: one call of swd_transfer or one call of    *)
(*  the register layer                                                  *)
(* ------------------------------------------------------------------ *)
InitEngine == InitXfer \/ InitReg

NextEngine ==
    \/ NextXfer
    \/ NextReg

SpecEngine == InitEngine /\ [][NextEngine]_vars

(* ------------------------------------------------------------------ *)
(*  Identification layer of swd_host.c: swd_read_idcode_value,          *)
(*  swd_verify_target, swd_verify_target_detailed, swd_integrity_test,  *)
(*  swd_abort_recovery.  One step is one attempt; evlog records what    *)
(*  the attempt did, in order.                                          *)
(* ------------------------------------------------------------------ *)
notIdent == <<seqVars, clsVars, xferVars, regVars, pureVars, appVars>>

IdentCalls ==
    {[IdcIdle EXCEPT !.op = "read_idcode_value", !.pc = "rv"],
     [IdcIdle EXCEPT !.op = "verify_target", !.pc = "vt_loop", !.attempt = 1],
     [IdcIdle EXCEPT !.op = "verify_target_detailed", !.pc = "vd_loop",
                     !.attempt = 1],
     [IdcIdle EXCEPT !.op = "abort_recovery", !.pc = "ar"]}
      \cup {[IdcIdle EXCEPT !.op = "integrity_test", !.pc = "it_reset",
                            !.iterations = k] : k \in 0..MaxIter}

InitIdent ==
    /\ InitSeq
    /\ NoClassify
    /\ NoXfer
    /\ NoReg
    /\ NoPure
    /\ NoApp
    /\ idc \in IdentCalls
    /\ evlog = <<>>

IdentSeq_OneReset(ans) ==
    <<EvLineReset, EvJtagToSwd,
      EvTxn(Txn(0, 1, DP_DPIDR, Word(0), ans.st, ans.val))>>

\* swd_line_reset(); swd_jtag_to_swd(); swd_line_reset();
\* st = swd_read_dp(DP_DPIDR, &idcode), answered ans
IdentSeq(ans) ==
    <<EvLineReset, EvJtagToSwd, EvLineReset,
      EvTxn(Txn(0, 1, DP_DPIDR, Word(0), ans.st, ans.val))>>

IdcodeOk_StatusOnly(st, idcode) == st = "SWD_OK"

\* st == SWD_OK && idcode == SWD_IDCODE_STM32G030
IdcodeOk(st, idcode) ==
    st = "SWD_OK" /\ idcode = Word(SWD_IDCODE_STM32G030)

AfterAbortWrite_OnlyOnOk(st) == IF st = "SWD_OK" THEN <<EvLineReset>> ELSE <<>>

\* swd_abort_recovery, line 749: swd_line_reset() follows the ABORT write
AfterAbortWrite(st) == <<EvLineReset>>

\* swd_abort_recovery with the ABORT write answered st
swd_abort_recovery(st) ==
    <<EvTxn(Txn(0, 0, DP_ABORT, Word(ABORT_CLEAR_ALL), st, Word(0)))>>
      \o AfterAbortWrite(st)

AttemptsField_Completed(a) == a - 1

\* result.attempts = attempt
AttemptsField(a) == a

NeedsAbortRecovery_AnyError(st) == st # "SWD_OK"

\* if (st == SWD_ACK_FAULT) swd_abort_recovery()
NeedsAbortRecovery(st) == st = "SWD_ACK_FAULT"

\* swd_read_idcode_value
ReadIdcodeValue ==
    /\ idc.pc = "rv"
    /\ \E ans \in ReadAnswers :
          /\ evlog' = evlog \o IdentSeq(ans)
          /\ idc' = [idc EXCEPT !.idcode = TransferStore(ans.st, ans.val, @),
                                !.pc = "ret", !.ret = ans.st]
    /\ UNCHANGED notIdent

\* swd_verify_target: one pass of the retry loop, and the return after it
VerifyTargetAttempt ==
    /\ idc.pc = "vt_loop"
    /\ idc.attempt <= SWD_MAX_RETRIES
    /\ \E ans \in ReadAnswers :
          LET idcode == TransferStore(ans.st, ans.val, Word(0))
              match  == IdcodeOk(ans.st, idcode)
              more   == idc.attempt < SWD_MAX_RETRIES
          IN  /\ evlog' = evlog \o <<EvResetTarget>> \o IdentSeq(ans)
                            \o (IF ~match /\ more THEN <<EvDelay>> ELSE <<>>)
              /\ idc' = IF match
                        THEN [idc EXCEPT !.idcode = idcode, !.pc = "ret",
                                         !.ret = "true"]
                        ELSE IF more
                        THEN [idc EXCEPT !.idcode = idcode, !.attempt = @ + 1]
                        ELSE [idc EXCEPT !.idcode = idcode, !.attempt = @ + 1,
                                         !.pc = "ret", !.ret = "false"]
    /\ UNCHANGED notIdent

\* swd_verify_target_detailed: one pass of the retry loop (lines 762-790),
\* and the return after the last pass
VerifyDetailedAttempt ==
    /\ idc.pc = "vd_loop"
    /\ idc.attempt <= SWD_MAX_RETRIES
    /\ \E ans \in ReadAnswers, ast \in swd_status_t :
          LET idcode  == TransferStore(ans.st, ans.val, Word(0))
              res     == [status |-> ans.st, idcode |-> idcode,
                          attempts |-> AttemptsField(idc.attempt)]
              match   == IdcodeOk(ans.st, idcode)
              more    == idc.attempt < SWD_MAX_RETRIES
              recover == ~match /\ more /\ NeedsAbortRecovery(ans.st)
          IN  /\ ~recover => ast = "SWD_OK"
              /\ evlog' = evlog \o <<EvResetTarget>> \o IdentSeq(ans)
                            \o (IF recover THEN swd_abort_recovery(ast)
                                ELSE <<>>)
                            \o (IF ~match /\ more THEN <<EvDelay>> ELSE <<>>)
              /\ idc' = IF match
                        THEN [idc EXCEPT !.result = res, !.pc = "ret",
                                         !.ret = "result"]
                        ELSE IF more
                        THEN [idc EXCEPT !.result = res, !.attempt = @ + 1]
                        ELSE [idc EXCEPT !.result = res, !.attempt = @ + 1,
                                         !.pc = "ret", !.ret = "result"]
    /\ UNCHANGED notIdent

\* swd_integrity_test, lines 609-612: counters, swd_reset_target()
IntegrityReset ==
    /\ idc.pc = "it_reset"
    /\ evlog' = Append(evlog, EvResetTarget)
    /\ idc' = [idc EXCEPT !.passes = 0, !.fails = 0, !.i = 0, !.pc = "it_loop"]
    /\ UNCHANGED notIdent

\* swd_integrity_test, lines 614-626: one iteration
IntegrityIter ==
    /\ idc.pc = "it_loop"
    /\ idc.i < idc.iterations
    /\ \E ans \in ReadAnswers :
          LET idcode == TransferStore(ans.st, ans.val, Word(0))
          IN  /\ evlog' = evlog \o IdentSeq(ans)
              /\ idc' = IF IdcodeOk(ans.st, idcode)
                        THEN [idc EXCEPT !.idcode = idcode, !.passes = @ + 1,
                                         !.i = @ + 1]
                        ELSE [idc EXCEPT !.idcode = idcode, !.fails = @ + 1,
                                         !.i = @ + 1]
    /\ UNCHANGED notIdent

\* swd_integrity_test, lines 628-635: the counters go to the caller
IntegrityEnd ==
    /\ idc.pc = "it_loop"
    /\ ~(idc.i < idc.iterations)
    /\ idc' = [idc EXCEPT !.pass_count = idc.passes, !.fail_count = idc.fails,
                          !.pc = "ret",
                          !.ret = IF idc.fails = 0 THEN "SWD_OK"
                                  ELSE "SWD_ERROR"]
    /\ UNCHANGED <<evlog, notIdent>>

\* swd_abort_recovery called on its own
AbortRecovery ==
    /\ idc.pc = "ar"
    /\ \E st \in swd_status_t :
          /\ evlog' = evlog \o swd_abort_recovery(st)
          /\ idc' = [idc EXCEPT !.pc = "ret", !.ret = st]
    /\ UNCHANGED notIdent

NextIdent ==
    \/ ReadIdcodeValue
    \/ VerifyTargetAttempt
    \/ VerifyDetailedAttempt
    \/ IntegrityReset
    \/ IntegrityIter
    \/ IntegrityEnd
    \/ AbortRecovery

SpecIdent == InitIdent /\ [][NextIdent]_vars

(* ------------------------------------------------------------------ *)
(*  The pure functions of swd_host.c, applied to arguments drawn from   *)
(*  their domains                                                       *)
(* ------------------------------------------------------------------ *)
notPure == <<seqVars, clsVars, xferVars, regVars, identVars, appVars>>

\* words whose parity is taken
ParityWords ==
    WordSamples \cup {Word(SWD_IDCODE_STM32G030), WordOfBits({31})}

\* v with bit k inverted
FlipBit(v, k) == [i \in 1..32 |-> IF i = k + 1 THEN 1 - v[i] ELSE v[i]]

\* addr is a uint8_t; APnDP and RnW are passed 0 or 1
InitPure ==
    /\ InitSeq
    /\ NoClassify
    /\ NoXfer
    /\ NoReg
    /\ NoIdent
    /\ NoApp
    /\ \/ \E ap \in {0, 1}, rw \in {0, 1}, a \in 0..255 :
             pf = [PfIdle EXCEPT !.fn = "swd_request_byte", !.APnDP = ap,
                                 !.RnW = rw, !.addr = a]
       \/ \E w \in ParityWords, k \in 0..32 :
             pf = [PfIdle EXCEPT !.fn = "parity32", !.v = w, !.flip = k]

RequestByteCall ==
    /\ pf.fn = "swd_request_byte"
    /\ pf.out = -1
    /\ pf' = [pf EXCEPT !.out = swd_request_byte(pf.APnDP, pf.RnW, pf.addr)]
    /\ UNCHANGED notPure

\* the sender's parity32(v), the receiver's parity32 of what arrived
Parity32Call ==
    /\ pf.fn = "parity32"
    /\ pf.out = -1
    /\ pf' = [pf EXCEPT
                !.p = parity32(pf.v),
                !.out = parity32(IF pf.flip = 0 THEN pf.v
                                 ELSE FlipBit(pf.v, pf.flip - 1))]
    /\ UNCHANGED notPure

NextPure ==
    \/ RequestByteCall
    \/ Parity32Call

SpecPure == InitPure /\ [][NextPure]_vars

(* ------------------------------------------------------------------ *)
(*  Progress: a run of run_production_test_v2, or one call of a layer   *)
(*  of the SWD host that the run goes through, each step of which is    *)
(*  eventually taken                                                    *)
(* ------------------------------------------------------------------ *)
\* the calls the run makes: swd_verify_target_detailed, swd_powerup_debug,
\* swd_mem_read32, and swd_transfer under each of them
InitRun ==
    \/ Init
    \/ InitXfer /\ (xf.hasData => xdata = WordOfBits(0..31))
    \/ InitReg /\ rg.op \in {"powerup", "mem_read32"}
    \/ InitIdent /\ idc.op = "verify_target_detailed"

NextRun ==
    \/ NoEngine /\ Next
    \/ NextXfer
    \/ MemCsw
    \/ MemTar
    \/ ReadApPosted
    \/ ReadApRdbuff
    \/ PuWrite
    \/ PuPoll
    \/ PuPollEnd
    \/ PuAckCheck
    \/ PuSelect0
    \/ PuSelectF
    \/ PuIdrDone
    \/ PuRestore
    \/ VerifyDetailedAttempt

SpecRunLive == InitRun /\ [][NextRun]_vars /\ WF_vars(NextRun)

(* ------------------------------------------------------------------ *)
(*  Types                                                               *)
(* ------------------------------------------------------------------ *)
TypeOK ==
    /\ pc \in {"Idle", "PreCheck", "Latch", "LatchWait", "VerifyOn", "Unlatch",
               "UnlatchWait", "VerifyOff", "PreSwdLid", "SwdVerify",
               "SwdAttempt", "DebugProbe", "Cleanup", "Done"}
    /\ gpio \in [start : {0, 1}, stop : {0, 1}]
    /\ report.result \in test_result_t
    /\ report.swd_status \in swd_status_t
    /\ report.swd_attempts \in 0..SWD_MAX_RETRIES
    /\ now \in 0..MaxClock
    /\ remaining \in 0..SETTLE_MS
    /\ attempt \in 0..SWD_MAX_RETRIES

(* ------------------------------------------------------------------ *)
(*  Properties                                                          *)
(* ------------------------------------------------------------------ *)
Released == gpio.start = 1 /\ gpio.stop = 1

InVisited(s) == \E i \in DOMAIN visited : visited[i] = s

\* C1: whenever run_production_test_v2 has returned its report, on whatever
\* exit path, SIM_START and SIM_STOP are both at the released level 1.
C1_OutputsReleasedAtReturn == pc = "Done" => Released

\* a run that pressed the lines, failed with NoLatch and returned
C1_Witness ==
    /\ pc = "Done"
    /\ report.result = "FAIL_NO_LATCH"
    /\ pressCount = 2
    /\ Released

\* C2: the cleanup block (force the outputs safe, swd_safe_state) has run
\* exactly once when the run returns, and not at all before it leaves the
\* step that produced the exit.
C2_CleanupExactlyOnce ==
    /\ pc = "Done" => (cleanupCount = 1 /\ swdSafeCount = 1)
    /\ pc # "Done" => (cleanupCount = 0 /\ swdSafeCount = 0)

\* a run aborted by the lid during a settle wait: safe_delay_ms forced the
\* outputs safe itself, and the cleanup still ran once
C2_Witness ==
    /\ pc = "Done"
    /\ aborted
    /\ report.result = "FAIL_SAFETY_OPEN"
    /\ forceSafeCount = 2
    /\ cleanupCount = 1

\* C3: once the first sample of the interlock has read open, the run is at
\* Done with outcome SafetyOpen, having entered no other state, and no sim
\* line was driven low or changed level, the load was never sampled and no
\* SWD operation was issued.
C3_LidOpenAtEntry ==
    obs.lidEntry = "open" =>
        /\ StateOf(pc) = "Done"
        /\ visited = <<"Idle", "Done">>
        /\ report.result = "FAIL_SAFETY_OPEN"
        /\ pressCount = 0
        /\ levelChanges = 0
        /\ loadSamples = 0
        /\ swdOps = 0

\* the run returned after finding the lid open at entry
C3_Witness ==
    /\ pc = "Done"
    /\ obs.lidEntry = "open"
    /\ cleanupCount = 1

\* C4: in the settle waits every polling interval is at most SAFETY_POLL_MS
\* and is followed by one sample of the interlock; as soon as a sample reads
\* open the sim lines are released, the outcome is SafetyOpen and the run is
\* on its way out; from then on the load is not sampled, no line is pressed
\* and no SWD operation is issued.
C4_SafeDelayAborts ==
    /\ [](/\ waitPolls.maxChunk <= SAFETY_POLL_MS
          /\ waitPolls.lidSamples = waitPolls.chunks
          /\ obs.lidWait = "open" =>
               /\ Released
               /\ pc \in {"Cleanup", "Done"}
               /\ report.result = "FAIL_SAFETY_OPEN")
    /\ [][obs.lidWait = "open" =>
            /\ loadSamples' = loadSamples
            /\ pressCount' = pressCount
            /\ swdOps' = swdOps
            /\ pc' \in {"Cleanup", "Done"}]_vars

\* the lid opened during the second settle wait, after the load had been
\* seen on, and the run returned
C4_Witness ==
    /\ pc = "Done"
    /\ obs.lidWait = "open"
    /\ obs.loadOn = "on"
    /\ waitPolls.chunks > SETTLE_MS \div SAFETY_POLL_MS
    /\ loadSamples = 2
    /\ swdOps = 0

DeadlineStates ==
    {"PreCheck", "Latch", "VerifyOn", "Unlatch", "VerifyOff", "SwdVerify",
     "DebugProbe"}

\* C5: a step taken on entry to PreCheck, Latch, VerifyOn, Unlatch,
\* VerifyOff, SwdVerify or DebugProbe with the deadline expired goes to the
\* cleanup with outcome Timeout without touching the lines, sampling the
\* load or issuing an SWD operation.
C5_TimeoutAtEveryState ==
    [][(pc \in DeadlineStates /\ deadline_expired(now, deadline)) =>
          /\ pc' = "Cleanup"
          /\ report'.result = "FAIL_TIMEOUT"
          /\ gpio' = gpio
          /\ loadSamples' = loadSamples
          /\ swdOps' = swdOps]_vars

\* C6: the states entered so far have strictly increasing rank in the
\* order Idle .. Done, start at Idle, end at the current state, and a step
\* that skips a state goes to Done with an outcome other than Pass.
C6_StrictStateOrder ==
    /\ visited[1] = "Idle"
    /\ visited[Len(visited)] = StateOf(pc)
    /\ \A i \in 1..(Len(visited) - 1) :
          /\ Rank(visited[i]) < Rank(visited[i + 1])
          /\ Rank(visited[i + 1]) > Rank(visited[i]) + 1 =>
                (visited[i + 1] = "Done" /\ report.result # "TEST_PASS")

\* a run that went through all nine states
C6_Witness ==
    /\ pc = "Done"
    /\ visited = <<"Idle", "PreCheck", "Latch", "VerifyOn", "Unlatch",
                   "VerifyOff", "SwdVerify", "DebugProbe", "Done">>

\* C7: once the load has been sampled energized at PreCheck (lid closed at
\* entry, deadline not expired), the run is at Done with outcome StuckOn
\* and no sim line was ever driven low.
C7_StuckOn ==
    (obs.lidEntry = "closed" /\ obs.loadPre = "on") =>
        /\ StateOf(pc) = "Done"
        /\ report.result = "FAIL_STUCK_ON"
        /\ pressCount = 0
        /\ Released

\* the run returned after sampling the load on at PreCheck
C7_Witness ==
    /\ pc = "Done"
    /\ obs.lidEntry = "closed"
    /\ obs.loadPre = "on"

\* C8: once the load has been sampled not energized at VerifyOn (both lines
\* pressed, settle wait completed with the lid closed, deadline not
\* expired), the run is at Done with outcome NoLatch, Unlatch, SwdVerify and
\* DebugProbe are never entered, no SWD operation is issued, and the lines
\* are released when the run returns.
C8_NoLatch ==
    obs.loadOn = "off" =>
        /\ pressCount = 2
        /\ obs.lidWait = "closed"
        /\ StateOf(pc) = "Done"
        /\ report.result = "FAIL_NO_LATCH"
        /\ ~InVisited("Unlatch")
        /\ ~InVisited("SwdVerify")
        /\ ~InVisited("DebugProbe")
        /\ swdOps = 0
        /\ pc = "Done" => Released

\* the run returned after sampling the load off at VerifyOn; the cleanup
\* is what released the lines
C8_Witness ==
    /\ pc = "Done"
    /\ obs.loadOn = "off"
    /\ levelChanges = 4

\* C9: once the load has been sampled energized at VerifyOff (both lines
\* released, second settle wait completed with the lid closed, deadline not
\* expired), the run is at Done with outcome StuckLatched and no SWD
\* operation is issued.
C9_StuckLatched ==
    obs.loadOff = "on" =>
        /\ Released
        /\ obs.lidWait = "closed"
        /\ waitPolls.chunks = 2 * (SETTLE_MS \div SAFETY_POLL_MS)
        /\ StateOf(pc) = "Done"
        /\ report.result = "FAIL_STUCK_LATCHED"
        /\ ~InVisited("SwdVerify")
        /\ swdOps = 0

\* the run returned after sampling the load on at VerifyOff
C9_Witness ==
    /\ pc = "Done"
    /\ obs.loadOff = "on"

SwdFailureClasses ==
    {"FAIL_SWD_WRONG_ID", "FAIL_SWD_NO_TARGET", "FAIL_SWD_BUS_ERROR",
     "FAIL_SWD_ERROR"}

\* C10: classify_swd_failure has a value for every status and identifier,
\* one of the SWD failure classes, and the value returned follows the table:
\* Ok with a differing identifier is SwdWrongId, Error is SwdNoTarget,
\* AckFault, ParityError, AckWait and Timeout are SwdBusError, and Ok with
\* the expected identifier is SwdErrorGeneric.
C10_ClassifyTable ==
    /\ cls_in \in VerifyResults
    /\ classify_swd_failure(cls_in) \in SwdFailureClasses
    /\ cls_out # "none" =>
        /\ cls_out = classify_swd_failure(cls_in)
        /\ (cls_in.status = "SWD_OK" /\ cls_in.idcode # SWD_IDCODE_STM32G030)
              => cls_out = "FAIL_SWD_WRONG_ID"
        /\ cls_in.status = "SWD_ERROR" => cls_out = "FAIL_SWD_NO_TARGET"
        /\ cls_in.status \in {"SWD_ACK_FAULT", "SWD_PARITY_ERROR"}
              => cls_out = "FAIL_SWD_BUS_ERROR"
        /\ cls_in.status \in {"SWD_ACK_WAIT", "SWD_TIMEOUT"}
              => cls_out = "FAIL_SWD_BUS_ERROR"
        /\ (cls_in.status = "SWD_OK" /\ cls_in.idcode = SWD_IDCODE_STM32G030)
              => cls_out = "FAIL_SWD_ERROR"

\* the remaining combination, Ok with the expected identifier, classified
C10_Witness ==
    /\ cls_in.status = "SWD_OK"
    /\ cls_in.idcode = SWD_IDCODE_STM32G030
    /\ cls_out = "FAIL_SWD_ERROR"

\* the run so far is the happy path: lid closed at every sample, load off,
\* on, off at the three samples, and the first identification attempt read
\* the expected identifier with status Ok
HappyPath ==
    /\ obs.lidEntry = "closed"
    /\ obs.loadPre = "off"
    /\ obs.loadOn = "on"
    /\ obs.loadOff = "off"
    /\ obs.lidSwd = "closed"
    /\ obs.lidWait = "closed"
    /\ attemptLog = <<"SWD_OK">>
    /\ swd_r.idcode = SWD_IDCODE_STM32G030

\* C11: on the happy path the run goes on to the debug probe with
\* swd_attempts = 1 in the report, and once the probe has run the outcome is
\* Pass whatever statuses the debug power-up and the memory read returned.
C11_HappyPathPasses ==
    HappyPath =>
        /\ pc \in {"DebugProbe", "Cleanup", "Done"}
        /\ report.swd_attempts = 1
        /\ report.swd_status = "SWD_OK"
        /\ pc \in {"Cleanup", "Done"} =>
              /\ report.result = "TEST_PASS"
              /\ dbg.powerup \in swd_status_t
              /\ dbg.powerup = "SWD_OK" => dbg.mem \in swd_status_t

\* a happy-path run returned Pass although the debug power-up timed out
C11_Witness ==
    /\ pc = "Done"
    /\ HappyPath
    /\ dbg.powerup = "SWD_TIMEOUT"
    /\ report.result = "TEST_PASS"
    /\ report.swd_attempts = 1

\* C12: once the verify result has been taken, the report's swd_idcode,
\* swd_attempts and swd_status are the fields of that result, swd_attempts
\* being the number of attempts made; when the result does not match, the
\* outcome is classify_swd_failure of it: three attempts all ending in Error
\* give SwdNoTarget with swd_attempts = 3, Ok with a wrong identifier gives
\* SwdWrongId.
C12_ReportCarriesVerifyResult ==
    (pc \in {"DebugProbe", "Cleanup", "Done"} /\ attemptLog # <<>>) =>
        /\ report.swd_idcode = swd_r.idcode
        /\ report.swd_status = swd_r.status
        /\ report.swd_status = attemptLog[Len(attemptLog)]
        /\ report.swd_attempts = swd_r.attempts
        /\ report.swd_attempts = Len(attemptLog)
        /\ IdMatches(swd_r) <=> InVisited("DebugProbe")
        /\ ~IdMatches(swd_r) =>
              /\ report.result = classify_swd_failure(swd_r)
              /\ report.swd_attempts = SWD_MAX_RETRIES
              /\ (\A i \in DOMAIN attemptLog : attemptLog[i] = "SWD_ERROR")
                    => report.result = "FAIL_SWD_NO_TARGET"
              /\ swd_r.status = "SWD_OK" => report.result = "FAIL_SWD_WRONG_ID"

\* three attempts that all ended in Error, reported as SwdNoTarget
C12_Witness ==
    /\ pc = "Done"
    /\ attemptLog = <<"SWD_ERROR", "SWD_ERROR", "SWD_ERROR">>
    /\ report.result = "FAIL_SWD_NO_TARGET"
    /\ report.swd_attempts = 3
    /\ report.swd_status = "SWD_ERROR"

(* ------------------------------------------------------------------ *)
(*  Properties of swd_transfer                                          *)
(* ------------------------------------------------------------------ *)
XferReturned == xf.pc = "ret"

\* the ACK of the last request frame
LastAck == xh.acks[Len(xh.acks)]

AllAcksWait == \A i \in DOMAIN xh.acks : xh.acks[i] = 2

\* the last k line operations
WireTail(k) == SubSeq(wire, Len(wire) - k + 1, Len(wire))

\* XOR of the 32 data bits
XorOfBits(v) == Cardinality({i \in 1..32 : v[i] = 1}) % 2

\* C13: a call sends the request frame at most 8 times and returns; it
\* returns AckWait exactly when 8 frames were all answered WAIT and no
\* deadline check found the deadline passed.
C13_WaitRetriesBounded ==
    /\ [](/\ xh.frames <= 8
          /\ Len(xh.acks) = xh.frames
          /\ (XferReturned /\ xh.frames = 8 /\ AllAcksWait /\ ~xh.pastSeen)
                => xf.ret = "SWD_ACK_WAIT"
          /\ xf.ret = "SWD_ACK_WAIT"
                => (xh.frames = 8 /\ AllAcksWait /\ ~xh.pastSeen))
    /\ <>XferReturned

\* eight frames answered WAIT within the deadline
C13_Witness ==
    /\ XferReturned
    /\ xf.ret = "SWD_ACK_WAIT"
    /\ xh.frames = 8
    /\ xnow <= xf.deadline

\* C14: no request frame is started at a time past the deadline (call
\* entry + 200 ms); a deadline check after a WAIT that finds the deadline
\* passed ends the call with Timeout, and Timeout is returned only so.
C14_WaitLoopDeadline ==
    /\ xf.pc \in {"frame", "ack", "ret"} => xf.deadline = 200000
    /\ xh.lateFrames = 0
    /\ xh.pastSeen => (XferReturned /\ xf.ret = "SWD_TIMEOUT")
    /\ xf.ret = "SWD_TIMEOUT" =>
          /\ xh.pastSeen
          /\ xnow > xf.deadline
          /\ LastAck = 2

\* the second WAIT check found the deadline passed: Timeout after 2 frames
C14_Witness ==
    /\ XferReturned
    /\ xf.ret = "SWD_TIMEOUT"
    /\ xh.frames = 2
    /\ xnow > 200000

\* what the inline ABORT write puts on the line after the bus has been
\* restored: request 0x81, turnaround, three bits read, turnaround, the word
\* 0x0000001F, its parity 1, idle clocks
AbortOnWire(abits) ==
    <<DirOut, Wr(<<1, 0, 0, 0, 0, 0, 0, 1>>), DirIn, Clocks(1), Rd(abits),
      DirOut, Level(0), Clocks(1),
      Wr([i \in 1..32 |-> IF i <= 5 THEN 1 ELSE 0]), Wr(<<1>>),
      DirOut, Level(0), Clocks(4)>>

\* C15: a call whose last request frame was answered FAULT has sent no
\* further request frame, has made exactly one inline ABORT write (the last
\* thing on the line) inside the same call, and returns AckFault whatever
\* the three bits read during the ABORT were.
C15_FaultAbortsInline ==
    /\ (xh.acks # <<>> /\ LastAck = 4 /\ xf.pc # "ack") =>
          /\ XferReturned
          /\ xf.ret = "SWD_ACK_FAULT"
          /\ xh.aborts = 1
          /\ xh.calls = 1
          /\ \E abits \in AckBits : WireTail(13) = AbortOnWire(abits)
    /\ (xh.aborts > 0 \/ xf.ret = "SWD_ACK_FAULT") =>
          (xh.acks # <<>> /\ LastAck = 4 /\ XferReturned)

\* FAULT on the third frame; the ABORT itself was answered 0b111
C15_Witness ==
    /\ XferReturned
    /\ xf.ret = "SWD_ACK_FAULT"
    /\ xh.acks = <<2, 2, 4>>
    /\ WireTail(13) = AbortOnWire([i \in 1..3 |-> 1])

\* C16: the value returned follows the ACK of the last frame: 1 gives Ok
\* (ParityError on a bad read parity), 2 gives AckWait or Timeout, 4 gives
\* AckFault; each of 0, 3, 5, 6, 7 gives Error, with no 32-bit data phase
\* on the line and a line reset of at least 50 clocks with SWDIO high as
\* the last thing done.
C16_AckMappingTotal ==
    XferReturned =>
        /\ LastAck \in 0..7
        /\ LastAck = 1 <=> xf.ret \in {"SWD_OK", "SWD_PARITY_ERROR"}
        /\ LastAck = 2 <=> xf.ret \in {"SWD_ACK_WAIT", "SWD_TIMEOUT"}
        /\ LastAck = 4 <=> xf.ret = "SWD_ACK_FAULT"
        /\ LastAck \in {0, 3, 5, 6, 7} <=> xf.ret = "SWD_ERROR"
        /\ xf.ret = "SWD_ERROR" =>
              /\ \A i \in DOMAIN wire : wire[i].n # 32
              /\ wire[Len(wire) - 2].op = "dir_out"
              /\ wire[Len(wire) - 1] = Level(1)
              /\ wire[Len(wire)].op = "clocks"
              /\ wire[Len(wire)].n >= 50

\* a WAIT, then the ACK 0b111
C16_Witness ==
    /\ XferReturned
    /\ xf.ret = "SWD_ERROR"
    /\ xh.acks = <<2, 7>>
    /\ wire[Len(wire)] = Clocks(56)

\* C17: after a read acknowledged OK the call returns Ok exactly when the
\* parity bit received is the XOR of the 32 data bits received, and then
\* the caller's word is the word received; otherwise it returns ParityError
\* at once and the caller's word is as it was on entry.
C17_ReadParity ==
    (XferReturned /\ LastAck = 1 /\ RnW_of(xf.request) = 1) =>
        LET val == wire[Len(wire) - 6].bits
            par == wire[Len(wire) - 5].bits[1]
        IN  /\ wire[Len(wire) - 6].op = "read"
            /\ wire[Len(wire) - 5].op = "read"
            /\ Len(val) = 32
            /\ xf.ret = "SWD_OK" <=> par = XorOfBits(val)
            /\ xf.ret = "SWD_PARITY_ERROR" <=> par # XorOfBits(val)
            /\ (xf.ret = "SWD_OK" /\ xf.hasData) => xdata = val
            /\ xf.ret = "SWD_PARITY_ERROR" => xdata = xh.data0
            /\ xh.frames = Len(xh.acks)

\* the word with bit 16 alone arrived with parity 0: ParityError, buffer
\* untouched
C17_Witness ==
    /\ XferReturned
    /\ xf.ret = "SWD_PARITY_ERROR"
    /\ xf.hasData
    /\ wire[Len(wire) - 6] = Rd(WordOfBits({16}))
    /\ wire[Len(wire) - 5] = Rd(<<0>>)
    /\ xdata = Word(1)
    /\ xh.data0 = Word(1)

(* ------------------------------------------------------------------ *)
(*  Properties of the register and memory access layer                  *)
(* ------------------------------------------------------------------ *)
RegReturned == rg.pc = "ret"

LastTxn == bus[Len(bus)]

AllTxnOk == \A i \in DOMAIN bus : bus[i].st = "SWD_OK"

IsRead(t, ap, addr) == t.ap = ap /\ t.rnw = 1 /\ t.addr = addr

IsWrite(t, ap, addr, w) == t.ap = ap /\ t.rnw = 0 /\ t.addr = addr /\ t.wdata = w

\* the value was left by swd_read_ap: AP read Ok, RDBUFF read not Ok
ViaReadAp ==
    /\ rg.op \in {"read_ap", "mem_read32"}
    /\ Len(bus) >= 2
    /\ bus[Len(bus) - 1].ap = 1
    /\ bus[Len(bus) - 1].rnw = 1
    /\ bus[Len(bus) - 1].st = "SWD_OK"
    /\ IsRead(LastTxn, 0, 12)
    /\ LastTxn.st # "SWD_OK"
    /\ rg.written = {1}

\* the values were left by swd_mem_read_block: the DRW reads of its loop
\* that returned Ok stored words 1..k, a later transaction failed
ViaBlock ==
    /\ rg.op = "mem_read_block"
    /\ Len(bus) >= 5
    /\ LastTxn.st # "SWD_OK"
    /\ rg.written = 1..(Len(bus) - 4)

\* swd_transfer leaves the caller's word alone unless it returns Ok
XferKeepsData ==
    /\ (XferReturned /\ xf.ret # "SWD_OK") => xdata = xh.data0
    /\ xdata # xh.data0 =>
          (XferReturned /\ xf.ret = "SWD_OK" /\ RnW_of(xf.request) = 1)

\* C18 as stated: swd_transfer leaves the caller's word alone unless it
\* returns Ok, and a register-layer call that returns a status other than Ok
\* with one of the caller's words stored has stored it in swd_read_ap (AP
\* read Ok, RDBUFF read failed).
C18_OnlyReadApLeavesValue ==
    /\ XferKeepsData
    /\ (RegReturned /\ rg.ret # "SWD_OK" /\ rg.written # {}) => ViaReadAp

\* C18 amended: swd_transfer leaves the caller's word alone unless it
\* returns Ok, and a register-layer call that returns a status other than Ok
\* with some of the caller's words stored is either swd_read_ap (directly or
\* at the end of swd_mem_read32) with the AP read Ok and the RDBUFF read
\* failed, or swd_mem_read_block with a transaction failed after DRW reads
\* of its loop stored the first words of the buffer; swd_read_dp never
\* does.
C18_PostedReadsLeaveValue ==
    /\ XferKeepsData
    /\ (RegReturned /\ rg.ret # "SWD_OK" /\ rg.written # {}) =>
          (ViaReadAp \/ ViaBlock)
    /\ \A k \in 1..MaxWords : k \notin rg.written => rbuf[k] = Word(0)

\* swd_read_ap returned ParityError from its RDBUFF read; the caller's word
\* holds what the AP read delivered
C18_Witness ==
    /\ RegReturned
    /\ rg.op = "read_ap"
    /\ rg.ret = "SWD_PARITY_ERROR"
    /\ rg.written = {1}
    /\ rbuf[1] = Word(SWD_IDCODE_STM32G030)
    /\ bus[1].rdata = Word(SWD_IDCODE_STM32G030)

\* C19: swd_read_ap issues the AP read of the register asked for; when that
\* returned Ok, and only then, the next transaction is one DP read of
\* RDBUFF and nothing follows it; the status returned is that of the AP
\* read when it is not Ok and that of the RDBUFF read otherwise, so Ok only
\* when both are Ok, and then the caller's word is the RDBUFF value.
C19_ReadApPosted ==
    rg.op = "read_ap" =>
        /\ Len(bus) <= 2
        /\ Len(bus) >= 1 => IsRead(bus[1], 1, rg.apaddr)
        /\ Len(bus) = 2 => (bus[1].st = "SWD_OK" /\ IsRead(bus[2], 0, 12))
        /\ (~RegReturned /\ Len(bus) = 1) => bus[1].st = "SWD_OK"
        /\ RegReturned =>
              /\ Len(bus) >= 1
              /\ bus[1].st # "SWD_OK" => (Len(bus) = 1 /\ rg.ret = bus[1].st)
              /\ bus[1].st = "SWD_OK" => (Len(bus) = 2 /\ rg.ret = bus[2].st)
              /\ rg.ret = "SWD_OK" <=> (Len(bus) = 2 /\ AllTxnOk)
              /\ rg.ret = "SWD_OK" => rbuf[1] = bus[2].rdata

\* AP read Ok with a stale word, RDBUFF read Ok with the identifier: the
\* caller gets the identifier
C19_Witness ==
    /\ RegReturned
    /\ rg.op = "read_ap"
    /\ rg.ret = "SWD_OK"
    /\ bus[1].rdata = CDBGPWRUPACK
    /\ bus[2].rdata = Word(SWD_IDCODE_STM32G030)
    /\ rbuf[1] = Word(SWD_IDCODE_STM32G030)

\* the step of swd_powerup_debug a transaction belongs to
StepOf(t) ==
    CASE IsWrite(t, 0, 4, WordOfBits({28, 30})) -> "WriteCtrlStat"
      [] IsRead(t, 0, 4) -> "PollCtrlStat"
      [] IsWrite(t, 0, 8, Word(0)) -> "SelectBank0"
      [] IsWrite(t, 0, 8, WordOfBits({4, 5, 6, 7})) -> "SelectBankF"
      [] IsRead(t, 1, 12) -> "ReadApIdr"
      [] IsRead(t, 0, 12) -> "ReadRdbuff"
      [] OTHER -> "other"

Steps == [i \in 1..Len(bus) |-> StepOf(bus[i])]

NPolls == Cardinality({i \in DOMAIN bus : StepOf(bus[i]) = "PollCtrlStat"})

\* the whole sequence, with k polls
PowerupSteps(k) ==
    <<"WriteCtrlStat">> \o [i \in 1..k |-> "PollCtrlStat"]
      \o <<"SelectBank0", "SelectBankF", "ReadApIdr", "ReadRdbuff",
           "SelectBank0">>

IsPrefix(a, b) == Len(a) <= Len(b) /\ a = SubSeq(b, 1, Len(a))

\* CDBGPWRUPACK (bit 29) and CSYSPWRUPACK (bit 31) both set
BothAcks(w) == w[30] = 1 /\ w[32] = 1

\* C20: the transactions of swd_powerup_debug are a prefix of: CTRL/STAT
\* write of both requests, polls of CTRL/STAT, SELECT 0, SELECT 0xF0, AP
\* read at 0x0C with its RDBUFF read, SELECT 0. Nothing is issued after a
\* transaction that was not Ok, whose status is the one returned. Polls
\* start before the deadline of 100 ms and stop at the first one that reads
\* both acknowledgements, and only then SELECT is written. When every
\* transaction was Ok the call returns Ok if the sequence is complete and
\* Timeout if polling ended without both acknowledgements read.
C20_PowerupSequence ==
    rg.op = "powerup" =>
        /\ IsPrefix(Steps, PowerupSteps(NPolls))
        /\ \A i \in 1..(Len(bus) - 1) : bus[i].st = "SWD_OK"
        /\ \A i \in 2..NPolls : ~BothAcks(bus[i].rdata)
        /\ NPolls >= 1 => rg.pollAt < 100000
        /\ Len(bus) > NPolls + 1 =>
              (NPolls >= 1 /\ BothAcks(bus[NPolls + 1].rdata))
        /\ (bus # <<>> /\ LastTxn.st # "SWD_OK") =>
              /\ rg.pc \in {"ret", "pu_idr_done"}
              /\ RegReturned => rg.ret = LastTxn.st
        /\ RegReturned =>
              /\ bus # <<>>
              /\ rg.ret = "SWD_OK" <=>
                    (AllTxnOk /\ Steps = PowerupSteps(NPolls))
              /\ (AllTxnOk /\ Steps # PowerupSteps(NPolls)) =>
                    /\ rg.ret = "SWD_TIMEOUT"
                    /\ Len(bus) = NPolls + 1
                    /\ \A i \in DOMAIN bus : ~BothAcks(bus[i].rdata)
                    /\ rg.now >= 100000

\* five polls, one of them reading a single acknowledgement, then Timeout
C20_Witness ==
    /\ RegReturned
    /\ rg.op = "powerup"
    /\ rg.ret = "SWD_TIMEOUT"
    /\ AllTxnOk
    /\ NPolls = 5
    /\ bus[3].rdata = CDBGPWRUPACK

\* ---------------------------------------------------------------------
\* swd_mem_read_block

BlockReturned == RegReturned /\ rg.op = "mem_read_block"

\* C21: swd_mem_read_block with word_count = 0 returns Ok and issues no
\* transaction; a successful call with word_count = n >= 1 issues exactly
\* the CSW write, the TAR write, n DRW reads and one RDBUFF read, in that
\* order (n = 1: one DRW read, then the RDBUFF read)
C21_BlockTransactions ==
    BlockReturned =>
        /\ rg.n = 0 => (rg.ret = "SWD_OK" /\ bus = <<>>)
        /\ (rg.n >= 1 /\ rg.ret = "SWD_OK") =>
              /\ Len(bus) = rg.n + 3
              /\ bus[1].ap = 1 /\ bus[1].rnw = 0 /\ bus[1].addr = AP_CSW
              /\ IsWrite(bus[2], 1, AP_TAR, Word(rg.addr))
              /\ \A k \in 3..(rg.n + 2) : IsRead(bus[k], 1, AP_DRW)
              /\ IsRead(bus[rg.n + 3], 0, DP_RDBUFF)

C21_Witness ==
    /\ BlockReturned
    /\ rg.ret = "SWD_OK"
    /\ rg.n = 3
    /\ Len(bus) = 6
    /\ IsRead(LastTxn, 0, DP_RDBUFF)

\* the target's memory: a different word at each of the addresses a block
\* read of this size reaches
TargetMem(a) ==
    LET k == ((a - FLASH_BASE) \div 4) % 4
    IN  CASE k = 0 -> Word(SWD_IDCODE_STM32G030)
          [] k = 1 -> CDBGPWRUPACK
          [] k = 2 -> Or32(CDBGPWRUPACK, CSYSPWRUPACK)
          [] OTHER -> Word(0)

\* the answers on the bus are those of a target with posted AP reads and
\* single auto-increment: after the TAR write, every DRW read fetches the
\* word at TAR and advances TAR by 4, a DRW read answers with the word the
\* DRW read before it fetched (the first with anything), RDBUFF with the
\* word the last DRW read fetched
PostedTarget ==
    \A k \in 4..Len(bus) :
        bus[k].st = "SWD_OK" => bus[k].rdata = TargetMem(rg.addr + 4 * (k - 4))

\* C22: against a posted-read, auto-incrementing target a successful
\* swd_mem_read_block(addr, buf, n) leaves in buf[i] the word at addr + 4*i
\* for every i in 0..n-1; a transaction that fails is the last one issued
\* and the call has returned its status
C22_BlockReadsMemory ==
    rg.op = "mem_read_block" =>
        /\ (BlockReturned /\ rg.ret = "SWD_OK" /\ rg.n >= 1 /\ PostedTarget) =>
              \A i \in 0..(rg.n - 1) : rbuf[i + 1] = TargetMem(rg.addr + 4 * i)
        /\ \A k \in DOMAIN bus :
              bus[k].st # "SWD_OK" =>
                  /\ k = Len(bus)
                  /\ rg.pc = "ret"
                  /\ rg.ret = bus[k].st

C22_Witness ==
    /\ BlockReturned
    /\ rg.ret = "SWD_OK"
    /\ rg.n = 3
    /\ PostedTarget
    /\ bus[3].rdata # TargetMem(rg.addr)
    /\ rbuf[1] # rbuf[2]
    /\ rbuf[2] # rbuf[3]

\* ---------------------------------------------------------------------
\* Identification layer

IdentReturned == idc.pc = "ret"

\* the entry is a read of the DP identification register
IsDpidrRead(e) == e.kind = "txn" /\ IsRead(e.txn[1], 0, DP_DPIDR)

\* the entry is a write to the DP ABORT register
IsAbortWrite(e) ==
    e.kind = "txn" /\ e.txn[1].ap = 0 /\ e.txn[1].rnw = 0
                   /\ e.txn[1].addr = DP_ABORT

\* SWDIO driven high for at least 50 clocks
IsLineReset(e) ==
    /\ e.kind = "line_reset"
    /\ Len(e.wire) = 3
    /\ e.wire[1] = DirOut
    /\ e.wire[2] = Level(1)
    /\ e.wire[3].op = "clocks"
    /\ e.wire[3].n >= 50

\* 0xE79E sent as 16 bits, bit 0 first
IsSwitchSequence(e) ==
    /\ e.kind = "jtag_to_swd"
    /\ e.wire = <<DirOut, Wr(<<0, 1, 1, 1, 1, 0, 0, 1, 1, 1, 1, 0, 0, 1, 1, 1>>)>>

\* positions of the identification reads in evlog
IdReads == {k \in DOMAIN evlog : IsDpidrRead(evlog[k])}

\* the identification reads before position k
IdReadsBefore(k) == {j \in IdReads : j < k}

LastIdRead == evlog[CHOOSE k \in IdReads : \A j \in IdReads : j <= k].txn[1]

\* C23: every identification attempt (swd_read_idcode_value, each attempt
\* of swd_verify_target_detailed and of swd_verify_target) is exactly
\* line reset, switch sequence 0xE79E (16 bits, least significant first),
\* line reset, read of the DP identification register, with nothing in
\* between
C23_IdentificationSequence ==
    idc.op \in {"read_idcode_value", "verify_target", "verify_target_detailed",
                "integrity_test"} =>
        /\ \A k \in IdReads :
              /\ k >= 4
              /\ IsLineReset(evlog[k - 3])
              /\ IsSwitchSequence(evlog[k - 2])
              /\ IsLineReset(evlog[k - 1])
        /\ \A k \in DOMAIN evlog :
              evlog[k].kind = "jtag_to_swd" => (k + 2) \in IdReads
        /\ (IdentReturned /\ idc.op = "read_idcode_value") => Len(evlog) = 4
        /\ idc.op \in {"verify_target", "verify_target_detailed"} =>
              Cardinality(IdReads)
                  = IF IdentReturned /\ idc.attempt <= SWD_MAX_RETRIES
                    THEN idc.attempt ELSE idc.attempt - 1

C23_Witness ==
    /\ IdentReturned
    /\ idc.op = "verify_target_detailed"
    /\ Cardinality(IdReads) = 3
    /\ IsSwitchSequence(evlog[3])
    /\ \E k \in IdReads : evlog[k].txn[1].st = "SWD_ACK_FAULT"

DetailedReturned == IdentReturned /\ idc.op = "verify_target_detailed"

\* the read answered Ok with the identifier of the STM32G030
Matched(t) == t.st = "SWD_OK" /\ t.rdata = Word(SWD_IDCODE_STM32G030)

\* C24: swd_verify_target_detailed returns attempts = the number of
\* reset + switch + read cycles performed, between 1 and 3; no attempt
\* follows one that read the expected identifier with Ok, fewer than 3
\* attempts are made only then; status and idcode are those of the last
\* attempt
C24_VerifyResult ==
    DetailedReturned =>
        /\ idc.result.attempts = Cardinality(IdReads)
        /\ idc.result.attempts
             = Cardinality({k \in DOMAIN evlog : evlog[k].kind = "reset_target"})
        /\ idc.result.attempts \in 1..3
        /\ \A k \in IdReads :
              Matched(evlog[k].txn[1]) => IdReadsBefore(k) = IdReads \ {k}
        /\ idc.result.attempts < 3 => Matched(LastIdRead)
        /\ idc.result.status = LastIdRead.st
        /\ idc.result.idcode = LastIdRead.rdata

C24_Witness ==
    /\ DetailedReturned
    /\ idc.result.attempts = 2
    /\ idc.result.status = "SWD_OK"
    /\ idc.result.idcode = Word(SWD_IDCODE_STM32G030)
    /\ evlog[5].txn[1].st = "SWD_ACK_WAIT"

\* the entries k+1, k+2 are an abort recovery: ABORT written with the five
\* clear bits (0x1F), then a line reset
RecoveryAfter(k) ==
    /\ k + 2 <= Len(evlog)
    /\ IsAbortWrite(evlog[k + 1])
    /\ evlog[k + 1].txn[1].wdata = Word(31)
    /\ IsLineReset(evlog[k + 2])

\* C25: in swd_verify_target_detailed an attempt that ends in AckFault and
\* is followed by another attempt is followed at once by abort recovery,
\* before the next attempt's target reset and identification sequence; no
\* ABORT write follows an attempt that ended with another status
C25_RecoveryAfterFault ==
    idc.op = "verify_target_detailed" =>
        /\ \A k \in IdReads :
              LET st == evlog[k].txn[1].st
                  nxt == {j \in IdReads : j > k}
              IN  /\ (st = "SWD_ACK_FAULT" /\ nxt # {}) =>
                        /\ RecoveryAfter(k)
                        /\ \A j \in (k + 1)..(k + 4) :
                              evlog[j].kind = "reset_target" => j = k + 4
                        /\ \A j \in nxt : j > k + 4
                  /\ st # "SWD_ACK_FAULT" =>
                        ~(k + 1 <= Len(evlog) /\ IsAbortWrite(evlog[k + 1]))
        /\ \A j \in DOMAIN evlog :
              IsAbortWrite(evlog[j]) => (j - 1) \in IdReads

C25_Witness ==
    /\ DetailedReturned
    /\ Cardinality(IdReads) = 3
    /\ evlog[5].txn[1].st = "SWD_ACK_FAULT"
    /\ RecoveryAfter(5)
    /\ evlog[6].txn[1].st = "SWD_ACK_FAULT"
    /\ evlog[13].txn[1].st = "SWD_TIMEOUT"
    /\ evlog[14].kind = "delay"

IntegrityReturned == IdentReturned /\ idc.op = "integrity_test"

\* C26: swd_integrity_test(iterations) resets the target once, before
\* anything else, then performs exactly `iterations` identification reads;
\* on return pass_count + fail_count = iterations, pass_count counts the
\* reads answered Ok with the expected identifier, and the status is Ok
\* exactly when fail_count = 0
C26_IntegrityCounts ==
    IntegrityReturned =>
        /\ {k \in DOMAIN evlog : evlog[k].kind = "reset_target"} = {1}
        /\ Cardinality(IdReads) = idc.iterations
        /\ idc.pass_count + idc.fail_count = idc.iterations
        /\ idc.pass_count
             = Cardinality({k \in IdReads : Matched(evlog[k].txn[1])})
        /\ idc.ret \in {"SWD_OK", "SWD_ERROR"}
        /\ idc.ret = "SWD_OK" <=> idc.fail_count = 0

C26_Witness ==
    /\ IntegrityReturned
    /\ idc.iterations = 3
    /\ idc.pass_count = 2
    /\ idc.fail_count = 1
    /\ idc.ret = "SWD_ERROR"
    /\ \E k \in IdReads :
          evlog[k].txn[1].st = "SWD_OK" /\ ~Matched(evlog[k].txn[1])

\* C29: swd_abort_recovery writes DP ABORT with the five clear bits set
\* (0x1F) and then performs a line reset whatever the status of the write;
\* the status it returns is that of the write
C29_AbortRecovery ==
    /\ \A j \in DOMAIN evlog :
          IsAbortWrite(evlog[j]) =>
              /\ evlog[j].txn[1].wdata = WordOfBits(0..4)
              /\ j + 1 <= Len(evlog)
              /\ IsLineReset(evlog[j + 1])
    /\ (IdentReturned /\ idc.op = "abort_recovery") =>
          /\ Len(evlog) = 2
          /\ IsAbortWrite(evlog[1])
          /\ idc.ret = evlog[1].txn[1].st

C29_Witness ==
    /\ IdentReturned
    /\ idc.op = "abort_recovery"
    /\ idc.ret = "SWD_ACK_FAULT"
    /\ IsAbortWrite(evlog[1])
    /\ IsLineReset(evlog[2])

\* ---------------------------------------------------------------------
\* Pure functions

\* C27: for every APnDP, RnW and address the request byte has bit 0
\* (start) = 1, bit 1 = APnDP, bit 2 = RnW, bit 3 = address bit 2,
\* bit 4 = address bit 3, bit 5 = the XOR of those four, bit 6 (stop) = 0,
\* bit 7 (park) = 1, so bits 1..5 have even parity; the other address bits
\* do not change the byte
C27_RequestByte ==
    (pf.fn = "swd_request_byte" /\ pf.out # -1) =>
        LET a2 == Bit(pf.addr, 2)
            a3 == Bit(pf.addr, 3)
        IN  /\ pf.out \in 0..255
            /\ Bit(pf.out, 0) = 1
            /\ Bit(pf.out, 1) = pf.APnDP
            /\ Bit(pf.out, 2) = pf.RnW
            /\ Bit(pf.out, 3) = a2
            /\ Bit(pf.out, 4) = a3
            /\ Bit(pf.out, 5) = (pf.APnDP + pf.RnW + a2 + a3) % 2
            /\ Bit(pf.out, 6) = 0
            /\ Bit(pf.out, 7) = 1
            /\ (Bit(pf.out, 1) + Bit(pf.out, 2) + Bit(pf.out, 3)
                  + Bit(pf.out, 4) + Bit(pf.out, 5)) % 2 = 0
            /\ pf.out = swd_request_byte(pf.APnDP, pf.RnW, 4 * a2 + 8 * a3)

C27_Witness ==
    /\ pf.fn = "swd_request_byte"
    /\ pf.APnDP = 1
    /\ pf.RnW = 0
    /\ pf.addr = 251
    /\ pf.out = 147

\* C28: parity32 is the XOR of the 32 bits of its argument; a word received
\* as sent has the parity sent with it, a word received with exactly one
\* bit inverted does not
C28_ParityDetectsOneBit ==
    (pf.fn = "parity32" /\ pf.out # -1) =>
        /\ pf.p = XorOfBits(pf.v)
        /\ pf.flip = 0 => pf.out = pf.p
        /\ pf.flip >= 1 => pf.out # pf.p

C28_Witness ==
    /\ pf.fn = "parity32"
    /\ pf.v = Word(SWD_IDCODE_STM32G030)
    /\ pf.flip = 32
    /\ pf.p = 0
    /\ pf.out = 1

\* ---------------------------------------------------------------------
\* Termination

\* polling intervals of one safe_delay_ms(SETTLE_MS)
SettlePolls == (SETTLE_MS + SAFETY_POLL_MS - 1) \div SAFETY_POLL_MS

\* the run is over: run_production_test_v2 is at Done, or the call of the
\* SWD host has returned
RunOver ==
    \/ pc = "Done"
    \/ xf.pc = "ret"
    \/ rg.pc = "ret"
    \/ idc.pc = "ret"

\* C30: every run of run_production_test_v2 reaches Done, whatever the
\* interlock, the load sensor and the target do, and every wait in it is
\* bounded: at most two settle delays of 25 polling intervals, at most 3
\* identification attempts, at most 8 request frames per transfer, no
\* power-up poll started once the 100 ms have passed; every call of the
\* SWD host returns
C30_RunTerminates ==
    /\ [](/\ waitPolls.chunks <= 2 * SettlePolls
          /\ Len(attemptLog) <= SWD_MAX_RETRIES
          /\ xh.frames <= SWD_WAIT_RETRIES
          /\ Cardinality(IdReads) <= SWD_MAX_RETRIES
          /\ (rg.op = "powerup" /\ NPolls > 0) =>
                (NPolls - 1) * (PollXferUs + POLL_DELAY_US) < POLL_TIMEOUT_US)
    /\ <>RunOver

C30_Witness ==
    /\ pc = "Done"
    /\ report.result # "TEST_PASS"
    /\ attemptLog = <<"SWD_ACK_WAIT", "SWD_ACK_FAULT", "SWD_TIMEOUT">>
    /\ waitPolls.chunks = 2 * SettlePolls

(* ------------------------------------------------------------------ *)
(*  Further properties of run_production_test_v2                        *)
(* ------------------------------------------------------------------ *)

\* C32: the two sim lines always have the same level; they are at the
\* pressed level only from the Latch step until the Unlatch step, a
\* SafetyOpen abort or the cleanup, whichever comes first, and only the
\* Latch step presses them; they are released throughout SwdVerify and
\* DebugProbe
C32_ButtonLines ==
    /\ [](/\ gpio.start = gpio.stop
          /\ gpio.start = 0 => pc \in {"LatchWait", "VerifyOn", "Unlatch", "Cleanup"}
          /\ (gpio.start = 0 /\ pc = "Cleanup") =>
                (~InVisited("VerifyOff") /\ ~aborted)
          /\ StateOf(pc) \in {"SwdVerify", "DebugProbe"} => Released
          /\ swdOps > 0 => (Released \/ pc = "Done"))
    /\ [][/\ (gpio.start = 1 /\ gpio'.start = 0) => pc = "Latch"
          /\ swdOps' # swdOps => (Released /\ gpio' = gpio)]_vars

C32_Witness ==
    /\ pc = "SwdAttempt"
    /\ attempt = 2
    /\ swdOps = 1
    /\ pressCount = 2
    /\ Released

\* C33: a report with outcome Pass has swd_status Ok, the expected
\* identifier and 1..3 attempts; a report with outcome SafetyOpen, StuckOn,
\* NoLatch, StuckLatched or Timeout has 0 attempts, status Error and
\* identifier 0
C33_ReportFields ==
    pc = "Done" =>
        /\ report.result = "TEST_PASS" =>
              /\ report.swd_status = "SWD_OK"
              /\ report.swd_idcode = SWD_IDCODE_STM32G030
              /\ report.swd_attempts \in 1..3
        /\ report.result \in {"FAIL_SAFETY_OPEN", "FAIL_STUCK_ON", "FAIL_NO_LATCH",
                              "FAIL_STUCK_LATCHED", "FAIL_TIMEOUT"} =>
              /\ report.swd_attempts = 0
              /\ report.swd_status = "SWD_ERROR"
              /\ report.swd_idcode = 0
              /\ swdOps = 0

C33_Witness ==
    /\ pc = "Done"
    /\ report.result = "TEST_PASS"
    /\ report.swd_attempts = 3
    /\ attemptLog = <<"SWD_OK", "SWD_PARITY_ERROR", "SWD_OK">>

\* the three outcomes of a failed identification
SwdFailures == {"FAIL_SWD_WRONG_ID", "FAIL_SWD_NO_TARGET", "FAIL_SWD_BUS_ERROR"}

\* C34: the outcome of run_production_test_v2 is never SwdErrorGeneric or
\* Incomplete: an outcome of the identification comes from
\* classify_swd_failure applied to a result that is not (Ok, expected
\* identifier), and for every such result, whatever its status, that is
\* SwdWrongId, SwdNoTarget or SwdBusError
C34_NoGenericOutcome ==
    /\ report.result \notin {"FAIL_SWD_ERROR", "FAIL_INCOMPLETE"}
    /\ report.result \in SwdFailures =>
          /\ ~IdMatches(swd_r)
          /\ report.result = classify_swd_failure(swd_r)
    /\ \A r \in VerifyResults :
          ~IdMatches(r) => classify_swd_failure(r) \in SwdFailures

C34_Witness ==
    /\ pc = "Done"
    /\ report.result = "FAIL_SWD_BUS_ERROR"
    /\ report.swd_status = "SWD_ACK_WAIT"
    /\ report.swd_attempts = 3

(* ------------------------------------------------------------------ *)
(*  Line discipline of swd_transfer                                     *)
(* ------------------------------------------------------------------ *)
\* the direction of the data line after the first k operations of the call
RECURSIVE DirAfter(_)
DirAfter(k) ==
    IF k = 0 THEN "dir_out"
    ELSE IF wire[k].op \in {"dir_out", "dir_in"} THEN wire[k].op
    ELSE DirAfter(k - 1)

\* the level of the clock line after the first k operations: idle since
\* swd_init (line 652), then the last level of the last pulse
RECURSIVE ClkAfter(_)
ClkAfter(k) ==
    IF k = 0 THEN CLK_IDLE
    ELSE IF wire[k].op \in {"clocks", "write", "read"} /\ wire[k].n > 0
         THEN ClockPulse[Len(ClockPulse)]
    ELSE ClkAfter(k - 1)

\* operation i is a request frame's turnaround: the line was just released
\* after the eight request bits
IsRequestTurnaround(i) ==
    /\ i >= 3
    /\ wire[i] = Clocks(1)
    /\ wire[i - 1] = DirIn
    /\ wire[i - 2].op = "write"
    /\ wire[i - 2].n = 8

\* C35: swd_transfer returns with the data line in output direction and the
\* clock line at its idle level whatever the status; the clock is at idle
\* between any two line operations; the line is released only right after
\* the eight request bits, and while it is released the host only clocks the
\* turnaround and samples (ACK, read data, parity), never drives
C35_LineDirection ==
    /\ xf.pc = "ret" =>
          /\ xf.ret \in {"SWD_OK", "SWD_PARITY_ERROR", "SWD_ACK_WAIT",
                         "SWD_TIMEOUT", "SWD_ACK_FAULT", "SWD_ERROR"}
          /\ DirAfter(Len(wire)) = "dir_out"
          /\ ClkAfter(Len(wire)) = CLK_IDLE
    /\ \A i \in DOMAIN wire :
          /\ ClkAfter(i) = CLK_IDLE
          /\ wire[i] = DirIn =>
                (i >= 2 /\ wire[i - 1].op = "write" /\ wire[i - 1].n = 8)
          /\ DirAfter(i - 1) = "dir_in" =>
                \/ IsRequestTurnaround(i)
                \/ wire[i].op = "read"
                \/ wire[i] = DirOut

\* eight WAIT answers: the loop ran out, eight releases of the line
C35_Witness ==
    /\ xf.pc = "ret"
    /\ xf.ret = "SWD_ACK_WAIT"
    /\ Cardinality({i \in DOMAIN wire : wire[i] = DirIn}) = SWD_WAIT_RETRIES
    /\ DirAfter(Len(wire)) = "dir_out"

(* ------------------------------------------------------------------ *)
(*  Step 8 of run_production_test_v2 over the register layer:           *)
(*  swd_powerup_debug, then swd_mem_read32 when it returned Ok          *)
(* ------------------------------------------------------------------ *)
InitProbe ==
    /\ InitSeq
    /\ NoClassify
    /\ NoXfer
    /\ NoCalls
    /\ rg = [RegIdle EXCEPT !.op = "powerup", !.pc = "pu_write"]
    /\ rbuf = [i \in 1..MaxWords |-> Word(0)]
    /\ bus = <<>>

\* lines 413-424: dbg_st = try_debug_powerup(); on Ok,
\* swd_mem_read32(0x08000000, &mem_val)
ProbeMemRead ==
    /\ rg.op = "powerup"
    /\ rg.pc = "ret"
    /\ ProbeReadsMemory(rg.ret)
    /\ rg' = [RegIdle EXCEPT !.op = "mem_read32", !.pc = "m_csw",
                             !.addr = FLASH_BASE, !.dest = 1]
    /\ UNCHANGED <<rbuf, bus, notReg>>

NextProbe ==
    \/ PuWrite
    \/ PuPoll
    \/ PuPollEnd
    \/ PuAckCheck
    \/ PuSelect0
    \/ PuSelectF
    \/ PuIdrDone
    \/ PuRestore
    \/ ProbeMemRead
    \/ MemCsw
    \/ MemTar
    \/ ReadApPosted
    \/ ReadApRdbuff

SpecProbe == InitProbe /\ [][NextProbe]_vars

\* the writes of DP SELECT on the bus, in order
SelectWrites ==
    SelectSeq(bus, LAMBDA t : t.ap = 0 /\ t.rnw = 0 /\ t.addr = DP_SELECT)

\* every SELECT write so far succeeded and the last one wrote 0
BankZeroSelected ==
    /\ SelectWrites # <<>>
    /\ \A i \in DOMAIN SelectWrites : SelectWrites[i].st = "SWD_OK"
    /\ SelectWrites[Len(SelectWrites)].wdata = Word(0)

\* C36: while the diagnostic swd_mem_read32 of Step 8 is in progress or has
\* returned, the last write of DP SELECT wrote 0 and succeeded, and the
\* memory read itself writes no SELECT; swd_powerup_debug returns Ok only
\* with the bank-0 restore as its last transaction, acknowledged Ok
C36_BankZeroAtMemRead ==
    /\ rg.op = "mem_read32" =>
          /\ BankZeroSelected
          /\ Len(SelectWrites) = 3
    /\ (rg.op = "powerup" /\ rg.pc = "ret" /\ rg.ret = "SWD_OK") =>
          /\ BankZeroSelected
          /\ bus[Len(bus)] = Txn(0, 0, DP_SELECT, Word(0), "SWD_OK", Word(0))

\* the memory read was issued and came back Ok, after the three SELECT writes
C36_Witness ==
    /\ rg.op = "mem_read32"
    /\ rg.pc = "ret"
    /\ rg.ret = "SWD_OK"
    /\ Len(bus) >= 9
    /\ BankZeroSelected

(* ------------------------------------------------------------------ *)
(*  v1: run_production_test = run_test_core, step by step               *)
(* ------------------------------------------------------------------ *)
\* state of the run that run_test_core does not touch
coreRest ==
    <<now, deadline, attempt, swd_r, levelChanges, abortRecoveries,
      cleanupCount, swdSafeCount, dbg, attemptLog, clsVars, engVars>>

\* "next statement is at label p" of run_test_core
CoreGoto(p) ==
    /\ pc' = p
    /\ visited' = IF p # pc THEN Append(visited, p) ELSE visited

\* return outcome;
CoreReturn(outcome) ==
    report' = [report EXCEPT !.result = outcome] /\ CoreGoto("CoreRet")

\* lines 212-215, Step 0
CoreGate ==
    /\ pc = "Idle"
    /\ \E lid \in {0, 1} :
          /\ obs' = [obs EXCEPT !.lidEntry = IF lid = 1 THEN "open" ELSE "closed"]
          /\ IF LID_IS_OPEN(lid)
             THEN CoreReturn("FAIL_SAFETY_OPEN")
             ELSE report' = report /\ CoreGoto("CorePreCheck")
    /\ UNCHANGED <<gpio, remaining, pressCount, loadSamples, swdOps,
                   forceSafeCount, waitPolls, aborted, coreRest>>

\* lines 218-221, Step 1
CorePreCheck ==
    /\ pc = "CorePreCheck"
    /\ \E load \in {0, 1} :
          /\ loadSamples' = loadSamples + 1
          /\ obs' = [obs EXCEPT !.loadPre = IF load = 1 THEN "on" ELSE "off"]
          /\ IF load_is_on(load)
             THEN CoreReturn("FAIL_STUCK_ON")
             ELSE report' = report /\ CoreGoto("CoreLatch")
    /\ UNCHANGED <<gpio, remaining, pressCount, swdOps, forceSafeCount,
                   waitPolls, aborted, coreRest>>

\* lines 224-227, Step 2: both lines low, enter safe_delay_ms(SETTLE_MS)
CoreLatch ==
    /\ pc = "CoreLatch"
    /\ gpio' = [gpio EXCEPT !.start = 0, !.stop = 0]
    /\ pressCount' = pressCount + 2
    /\ remaining' = SETTLE_MS
    /\ report' = report
    /\ CoreGoto("CoreLatchWait")
    /\ UNCHANGED <<obs, loadSamples, swdOps, forceSafeCount, waitPolls,
                   aborted, coreRest>>

\* one iteration of the loop of safe_delay_ms (lines 135-145) and the
\* caller's test of its return value (lines 227-229, 242-244)
CoreSafeDelayStep ==
    /\ pc \in {"CoreLatchWait", "CoreUnlatchWait"}
    /\ remaining > 0
    /\ \E lid \in {0, 1} :
         LET chunk == safe_delay_chunk(remaining)
         IN  /\ remaining' = remaining - chunk
             /\ waitPolls' = [chunks |-> waitPolls.chunks + 1,
                              lidSamples |-> waitPolls.lidSamples + 1,
                              maxChunk |-> IF chunk > waitPolls.maxChunk
                                           THEN chunk ELSE waitPolls.maxChunk]
             /\ obs' = [obs EXCEPT !.lidWait = IF lid = 1 THEN "open" ELSE "closed"]
             /\ IF LID_IS_OPEN(lid)
                THEN /\ gpio' = force_outputs_safe(gpio)
                     /\ forceSafeCount' = forceSafeCount + 1
                     /\ aborted' = TRUE
                     /\ CoreReturn("FAIL_SAFETY_OPEN")
                ELSE /\ UNCHANGED <<gpio, forceSafeCount, aborted>>
                     /\ report' = report
                     /\ IF remaining' > 0
                        THEN CoreGoto(pc)
                        ELSE CoreGoto(IF pc = "CoreLatchWait" THEN "CoreVerifyOn"
                                  ELSE "CoreVerifyOff")
    /\ UNCHANGED <<pressCount, loadSamples, swdOps, coreRest>>

\* lines 232-236, Step 3
CoreVerifyOn ==
    /\ pc = "CoreVerifyOn"
    /\ \E load \in {0, 1} :
          /\ loadSamples' = loadSamples + 1
          /\ obs' = [obs EXCEPT !.loadOn = IF load = 1 THEN "on" ELSE "off"]
          /\ IF LatchFailed(load)
             THEN /\ gpio' = force_outputs_safe(gpio)
                  /\ forceSafeCount' = forceSafeCount + 1
                  /\ CoreReturn("FAIL_NO_LATCH")
             ELSE /\ UNCHANGED <<gpio, forceSafeCount>>
                  /\ report' = report
                  /\ CoreGoto("CoreUnlatch")
    /\ UNCHANGED <<remaining, pressCount, swdOps, waitPolls, aborted, coreRest>>

\* lines 239-242, Step 4: both lines high, enter safe_delay_ms(SETTLE_MS)
CoreUnlatch ==
    /\ pc = "CoreUnlatch"
    /\ gpio' = UnlatchLevels(gpio)
    /\ remaining' = SETTLE_MS
    /\ report' = report
    /\ CoreGoto("CoreUnlatchWait")
    /\ UNCHANGED <<obs, pressCount, loadSamples, swdOps, forceSafeCount,
                   waitPolls, aborted, coreRest>>

\* lines 247-250, Step 5
CoreVerifyOff ==
    /\ pc = "CoreVerifyOff"
    /\ \E load \in {0, 1} :
          /\ loadSamples' = loadSamples + 1
          /\ obs' = [obs EXCEPT !.loadOff = IF load = 1 THEN "on" ELSE "off"]
          /\ IF UnlatchFailed(load)
             THEN CoreReturn("FAIL_STUCK_LATCHED")
             ELSE report' = report /\ CoreGoto("CoreLid")
    /\ UNCHANGED <<gpio, remaining, pressCount, swdOps, forceSafeCount,
                   waitPolls, aborted, coreRest>>

\* lines 253-256, Step 6
CoreLid ==
    /\ pc = "CoreLid"
    /\ \E lid \in {0, 1} :
          /\ obs' = [obs EXCEPT !.lidSwd = IF lid = 1 THEN "open" ELSE "closed"]
          /\ IF LID_IS_OPEN(lid)
             THEN CoreReturn("FAIL_SAFETY_OPEN")
             ELSE report' = report /\ CoreGoto("CoreSwd")
    /\ UNCHANGED <<gpio, remaining, pressCount, loadSamples, swdOps,
                   forceSafeCount, waitPolls, aborted, coreRest>>

\* lines 259-264, Step 7: verify_swd(), then the return
CoreSwd ==
    /\ pc = "CoreSwd"
    /\ \E ok \in BOOLEAN :
          CoreReturn(IF ~ok THEN "FAIL_SWD_ERROR" ELSE "TEST_PASS")
    /\ swdOps' = swdOps + 1
    /\ UNCHANGED <<gpio, remaining, obs, pressCount, loadSamples,
                   forceSafeCount, waitPolls, aborted, coreRest>>

NextCore ==
    \/ CoreGate
    \/ CorePreCheck
    \/ CoreLatch
    \/ CoreSafeDelayStep
    \/ CoreVerifyOn
    \/ CoreUnlatch
    \/ CoreVerifyOff
    \/ CoreLid
    \/ CoreSwd

SpecCore == Init /\ [][NextCore]_vars

\* C37: run_production_test (v1), entered with both lines released, has both
\* lines released whenever it has returned, whatever the outcome (SafetyOpen
\* at entry, in either wait or before SWD, StuckOn, NoLatch, StuckLatched,
\* SwdErrorGeneric, Pass); the lines are low only from Step 2 until the lid
\* abort of the first wait, the NoLatch exit or Step 4
C37_V1ReleasedAtReturn ==
    /\ pc = "CoreRet" =>
          /\ Released
          /\ report.result \in {"FAIL_SAFETY_OPEN", "FAIL_STUCK_ON",
                                "FAIL_NO_LATCH", "FAIL_STUCK_LATCHED",
                                "FAIL_SWD_ERROR", "TEST_PASS"}
    /\ ~Released =>
          /\ gpio = [start |-> 0, stop |-> 0]
          /\ pc \in {"CoreLatchWait", "CoreVerifyOn", "CoreUnlatch"}

\* the load did not turn on: returned NoLatch after the lines had been low
C37_Witness ==
    /\ pc = "CoreRet"
    /\ report.result = "FAIL_NO_LATCH"
    /\ pressCount = 2
    /\ forceSafeCount = 1
    /\ Released

(* ------------------------------------------------------------------ *)
(*  main.c: the application loop of app_main, one loop iteration in     *)
(*  two steps (safety gate, then the case of the switch), the run of    *)
(*  run_production_test_v2 as a call that returns some outcome          *)
(* ------------------------------------------------------------------ *)
\* units counted in one exploration
MaxUnits == 2

\* fixture_pins.h, line 67
BUTTON_PRESSED(level) == level = 0

\* fixture_pins.h, line 71
LID_IS_CLOSED(level) == level = 0

\* start_button_pressed(), lines 170-177: b1 the level read first, b2 the
\* level read after the debounce delay
start_button_pressed(b1, b2) ==
    IF ~BUTTON_PRESSED(b1) THEN FALSE ELSE BUTTON_PRESSED(b2)

GateAborts_Never(lid, st) == FALSE

\* line 260: if (LID_IS_OPEN() && state == STATE_TESTING)
GateAborts(lid, st) == LID_IS_OPEN(lid) /\ st = "STATE_TESTING"

AfterRun_RetryOnFail(result) ==
    IF result = "TEST_PASS" THEN "STATE_RESULT" ELSE "STATE_TESTING"

\* line 325: state = STATE_RESULT, whatever the result
AfterRun(result) == "STATE_RESULT"

\* leds_off()
LedsOff == [g |-> 0, r |-> 0]

LidName(lid) == IF LID_IS_OPEN(lid) THEN "open" ELSE "closed"

\* state of the model the loop does not touch
appRest ==
    <<pc, report, now, deadline, remaining, attempt, swd_r, obs, pressCount,
      levelChanges, loadSamples, swdOps, abortRecoveries, cleanupCount,
      forceSafeCount, swdSafeCount, waitPolls, aborted, visited, dbg,
      attemptLog, clsVars, xferVars, regVars, identVars, pureVars, mock>>

\* the loop is entered after nvs_init_counters (lines 91-94: unit_counter
\* resumes at the stored value) and gpio_init_all (lines 136-142)
InitApp ==
    /\ InitSeq
    /\ NoClassify
    /\ NoXfer
    /\ NoReg
    /\ NoIdent
    /\ NoPure
    /\ mock = MockOff
    /\ \E u \in 0..(MaxUnits - 1) :
          app = [AppIdle EXCEPT !.pc = "gate", !.unit_counter = u,
                                !.nvs_unit = u]

\* lines 259-266: the global safety gate; on an abort, continue
AppGate ==
    /\ app.pc = "gate"
    /\ \E lid \in {0, 1} :
          IF GateAborts(lid, app.state)
          THEN /\ gpio' = force_outputs_safe(gpio)
               /\ app' = [app EXCEPT !.gateLid = LidName(lid),
                                     !.led = LedsOff,
                                     !.state = "STATE_IDLE",
                                     !.aborts = @ + 1,
                                     !.openSinceRun = TRUE,
                                     !.last = "abort"]
          ELSE /\ gpio' = gpio
               /\ app' = [app EXCEPT !.gateLid = LidName(lid),
                                     !.pc = "switch",
                                     !.openSinceRun = @ \/ LID_IS_OPEN(lid),
                                     !.last = "gate"]
    /\ UNCHANGED appRest

\* lines 270-279: case STATE_IDLE, then the poll delay
AppIdleStep ==
    /\ app.pc = "switch"
    /\ app.state = "STATE_IDLE"
    /\ \E b1 \in {0, 1}, b2 \in {0, 1}, lid \in {0, 1} :
          IF start_button_pressed(b1, b2) /\ LID_IS_CLOSED(lid)
          THEN /\ app.unit_counter < MaxUnits
               /\ app' = [app EXCEPT !.pc = "gate",
                                     !.led = LedsOff,
                                     !.unit_counter = @ + 1,
                                     !.nvs_unit = app.unit_counter + 1,
                                     !.state = "STATE_TESTING",
                                     !.incs = @ + 1,
                                     !.last = "inc"]
          ELSE app' = [app EXCEPT !.pc = "gate",
                                  !.led = LedsOff,
                                  !.openSinceRun =
                                      @ \/ (start_button_pressed(b1, b2)
                                            /\ LID_IS_OPEN(lid)),
                                  !.last = "idle"]
    /\ UNCHANGED <<gpio, appRest>>

\* lines 281-286: case STATE_TESTING, up to the call
AppInvoke ==
    /\ app.pc = "switch"
    /\ app.state = "STATE_TESTING"
    /\ app' = [app EXCEPT !.pc = "running",
                          !.led = [g |-> 1, r |-> 1],
                          !.runs = @ + 1,
                          !.last = "invoke"]
    /\ UNCHANGED <<gpio, appRest>>

\* lines 286-326: the call returns; lines released, row logged, LED set,
\* state = STATE_RESULT, then the poll delay
AppRunReturn ==
    /\ app.pc = "running"
    /\ \E result \in test_result_t :
          app' = [app EXCEPT !.pc = "gate",
                             !.rows = Append(@, [unit_id |-> app.unit_counter,
                                                 status |-> result]),
                             !.led = IF result = "TEST_PASS"
                                     THEN [g |-> 1, r |-> 0]
                                     ELSE [g |-> 0, r |-> 1],
                             !.state = AfterRun(result),
                             !.openSinceRun = FALSE,
                             !.last = "return"]
    /\ gpio' = force_outputs_safe(gpio)
    /\ UNCHANGED appRest

\* lines 329-335: case STATE_RESULT, then the poll delay
AppResultStep ==
    /\ app.pc = "switch"
    /\ app.state = "STATE_RESULT"
    /\ \E lid \in {0, 1} :
          IF LID_IS_OPEN(lid)
          THEN app' = [app EXCEPT !.pc = "gate",
                                  !.led = LedsOff,
                                  !.state = "STATE_IDLE",
                                  !.openSinceRun = TRUE,
                                  !.last = "result_open"]
          ELSE app' = [app EXCEPT !.pc = "gate", !.last = "result"]
    /\ UNCHANGED <<gpio, appRest>>

NextApp ==
    \/ AppGate
    \/ AppIdleStep
    \/ AppInvoke
    \/ AppRunReturn
    \/ AppResultStep

\* the loop never exits and every call it makes returns
SpecApp == InitApp /\ [][NextApp]_vars /\ WF_vars(NextApp)

(* ------------------------------------------------------------------ *)
(*  Properties of the application loop                                  *)
(* ------------------------------------------------------------------ *)
RunInvoked == app'.runs = app.runs + 1

RunReturned == app.pc = "running" /\ app'.pc # "running"

C38_RunsGated ==
    /\ [][/\ RunInvoked =>
               /\ app.state = "STATE_TESTING"
               /\ app.gateLid = "closed"
               /\ app.last = "gate"
          /\ RunReturned => app'.state = "STATE_RESULT"
          /\ (app.state = "STATE_RESULT" /\ app'.state # "STATE_RESULT") =>
               (app'.state = "STATE_IDLE" /\ app'.openSinceRun)]_vars
    /\ []((app.pc = "running" /\ app.runs > 1) => app.openSinceRun)

\* the second run is invoked: the lid was seen open after the first, and the
\* gate of this iteration saw it closed
C38_Witness ==
    /\ app.pc = "running"
    /\ app.runs = 2
    /\ app.openSinceRun
    /\ app.gateLid = "closed"
    /\ app.aborts = 0

\* C39: every increment of the unit counter but the last has had its
\* invocation of run_production_test_v2 and its logged row, so increments
\* are never more than one ahead of the runs and of the rows; the rows carry
\* unit ids in increasing order, none above the counter
C39_EveryUnitRunAndLogged ==
    /\ app.incs <= app.runs + 1
    /\ app.runs <= app.incs
    /\ app.incs <= Len(app.rows) + 1
    /\ \A i \in DOMAIN app.rows :
          /\ app.rows[i].unit_id <= app.unit_counter
          /\ \A j \in DOMAIN app.rows :
                i < j => app.rows[i].unit_id < app.rows[j].unit_id

(* ------------------------------------------------------------------ *)
(*  MOCK_HARDWARE_MODE: run_production_test_v2 over mock_hardware.c,    *)
(*  run after run                                                       *)
(* ------------------------------------------------------------------ *)
\* runs made one after the other
MaxMockRuns == 2

\* 3.3f and 1.0f, in tenths of a volt
MOCK_VOLTAGE_ON == 33

MOCK_THRESHOLD == 10

mock_update_simulation_NoRelease(m, g) ==
    IF g.start = 0 /\ g.stop = 0
    THEN [m EXCEPT !.latched = TRUE, !.simulated_voltage = MOCK_VOLTAGE_ON]
    ELSE m

\* mock_update_simulation(), lines 32-47
mock_update_simulation(m, g) ==
    IF g.start = 0 /\ g.stop = 0
    THEN [m EXCEPT !.latched = TRUE, !.simulated_voltage = MOCK_VOLTAGE_ON]
    ELSE IF g.start = 1 /\ g.stop = 1
    THEN [m EXCEPT !.latched = FALSE, !.simulated_voltage = 0]
    ELSE IF g.stop = 0 /\ g.start = 1
    THEN [m EXCEPT !.latched = FALSE, !.simulated_voltage = 0]
    ELSE m

\* mock_read_voltage() > 1.0f, as the level load_is_on() tests
MockLoadLevel(m) == IF m.simulated_voltage > MOCK_THRESHOLD THEN 1 ELSE 0

\* the steps whose next statement, the deadline not yet expired, is a call
\* of load_is_on()
SamplesLoad ==
    /\ pc \in {"PreCheck", "VerifyOn", "VerifyOff"}
    /\ ~deadline_expired(now, deadline)

LoadName(level) == IF load_is_on(level) THEN "on" ELSE "off"

InitMock ==
    /\ InitSeq
    /\ NoClassify
    /\ NoXfer
    /\ NoReg
    /\ NoIdent
    /\ NoPure
    /\ app = AppIdle
    /\ mock = MockOff

\* load_is_on(), line 70: mock_update_simulation() for the sample about to
\* be taken
MockUpdate ==
    /\ SamplesLoad
    /\ mock.at # loadSamples + 1
    /\ mock' = [mock_update_simulation(mock, gpio) EXCEPT !.at = loadSamples + 1]
    /\ UNCHANGED <<seqVars, clsVars, xferVars, regVars, identVars, pureVars, app>>

\* what the mock build puts in place of the hardware: the load level is the
\* simulated one (line 71), verify_swd_detailed returns Ok with the expected
\* identifier at attempt 1 (lines 82-88), try_debug_powerup returns Ok
\* (line 113) and the memory word is a constant (line 420)
MockInputs ==
    /\ SamplesLoad => mock.at = loadSamples + 1
    /\ (SamplesLoad /\ pc = "PreCheck") =>
          obs'.loadPre = LoadName(MockLoadLevel(mock))
    /\ (SamplesLoad /\ pc = "VerifyOn") =>
          obs'.loadOn = LoadName(MockLoadLevel(mock))
    /\ (SamplesLoad /\ pc = "VerifyOff") =>
          obs'.loadOff = LoadName(MockLoadLevel(mock))
    /\ pc = "SwdAttempt" =>
          swd_r' = [status |-> "SWD_OK", idcode |-> SWD_IDCODE_STM32G030,
                    attempts |-> 1]
    /\ pc = "DebugProbe" => dbg' = [powerup |-> "SWD_OK", mem |-> "SWD_OK"]

\* a step of run_production_test_v2 in the mock build
MockRunStep == Next /\ MockInputs

\* the run has returned: the next call of run_production_test_v2, from the
\* levels and the simulation state the previous one left
MockRestart ==
    /\ pc = "Done"
    /\ mock.runs + 1 < MaxMockRuns
    /\ mock' = [mock EXCEPT !.runs = @ + 1, !.at = 0, !.prev = report.result]
    /\ pc' = "Idle"
    /\ report' = ReportInit
    /\ now' = 0
    /\ deadline' = TEST_TIMEOUT_MS
    /\ remaining' = 0
    /\ attempt' = 0
    /\ swd_r' = [status |-> "SWD_ERROR", idcode |-> 0, attempts |-> 0]
    /\ obs' = [lidEntry |-> "none", loadPre |-> "none", loadOn |-> "none",
               loadOff |-> "none", lidSwd |-> "none", lidWait |-> "none"]
    /\ pressCount' = 0
    /\ levelChanges' = 0
    /\ loadSamples' = 0
    /\ swdOps' = 0
    /\ abortRecoveries' = 0
    /\ cleanupCount' = 0
    /\ forceSafeCount' = 0
    /\ swdSafeCount' = 0
    /\ waitPolls' = [chunks |-> 0, lidSamples |-> 0, maxChunk |-> 0]
    /\ aborted' = FALSE
    /\ visited' = <<"Idle">>
    /\ dbg' = [powerup |-> "none", mem |-> "none"]
    /\ attemptLog' = <<>>
    /\ UNCHANGED <<gpio, clsVars, xferVars, regVars, identVars, pureVars, app>>

NextMock ==
    \/ MockUpdate
    \/ MockRunStep
    \/ MockRestart

SpecMock == InitMock /\ [][NextMock]_vars

LidSeenOpen ==
    \E f \in {"lidEntry", "lidWait", "lidSwd"} : obs[f] = "open"

\* C40: in the mock build a run of run_production_test_v2, the first or a
\* following one, ends otherwise than with Pass only if a lid sample was
\* open (SafetyOpen) or the deadline had expired (Timeout); a Pass carries
\* the expected identifier, swdAttempts = 1 and swdStatus Ok, after load
\* samples off, on, off taken from the simulation
C40_MockRunPasses ==
    pc = "Done" =>
       /\ report.result \in {"TEST_PASS", "FAIL_SAFETY_OPEN", "FAIL_TIMEOUT"}
       /\ report.result = "FAIL_SAFETY_OPEN" => LidSeenOpen
       /\ report.result = "FAIL_TIMEOUT" => now >= deadline
       /\ report.result = "TEST_PASS" =>
             /\ report.swd_idcode = SWD_IDCODE_STM32G030
             /\ report.swd_attempts = 1
             /\ report.swd_status = "SWD_OK"
             /\ obs.loadPre = "off"
             /\ obs.loadOn = "on"
             /\ obs.loadOff = "off"
             /\ Released

\* a second run that passed, after a first run that passed
C40_Witness ==
    /\ pc = "Done"
    /\ mock.runs = 1
    /\ mock.prev = "TEST_PASS"
    /\ report.result = "TEST_PASS"
    /\ report.swd_attempts = 1
    /\ ~LidSeenOpen
====
